---- MODULE Spec2Model ----
(***************************************************************************)
(* Model of the slack-prediction service of                                *)
(* src/python/PREDICTION-MODULE/prediction.py:                             *)
(*   - Spec          : the train / predict handlers and the process-wide   *)
(*                     trained artifacts they write and read;              *)
(*   - SpecFeatures  : create_dynamic_features / recreate_trained_features *)
(*                     as pure functions over small tables;                *)
(*   - SpecCorrector : the per-row correction and bounds functions;        *)
(*   - SpecAlign     : the alignment of the tables on normalized endpoints *)
(*                     in train_model and predict, row by row.             *)
(* Both handlers are `async def` coroutines; train_model holds no await    *)
(* and predict awaits only after its last read of the artifacts (line      *)
(* 3129), so on the event loop a handler runs to that point without        *)
(* interleaving: predict is enabled only while no training run is between  *)
(* its steps.                                                              *)
(***************************************************************************)
EXTENDS Integers, Sequences, FiniteSets, TLC

\* Number of training requests a behaviour may issue.
MaxRuns == 2

(***************************************************************************)
(* Tables of the service specification.  A table is a schema (ordered      *)
(* column names, the ones of numeric dtype after clean_data_for_training)  *)
(* and its rows, each row given by its raw endpoint, a list of the         *)
(* '/'-separated segments.                                                 *)
(***************************************************************************)
SchemaFull    == [cols |-> <<"endpoint", "beginpoint", "delay", "slack">>, numeric |-> {"delay", "slack"}]
SchemaNoBegin == [cols |-> <<"endpoint", "delay", "slack">>, numeric |-> {"delay", "slack"}]
SchemaMin     == [cols |-> <<"endpoint", "slack">>, numeric |-> {"slack"}]
SchemaNoNum   == [cols |-> <<"endpoint", "beginpoint">>, numeric |-> {}]

Schemas == {SchemaFull, SchemaNoBegin, SchemaMin, SchemaNoNum}

EpA == <<"top", "u1", "r1">>
EpB == <<"top", "u2", "r2">>
EpC == <<"blk", "u1", "r1">>
EpD == <<"top", "u3", "r3">>
EpE == <<"top", "u4", "r4">>

RowLists == { <<EpA, EpB, EpE>>, <<EpA, EpB>>, <<EpC, EpA>>, <<EpD>> }

Tables == [schema : Schemas, rows : RowLists]

Range(s) == { s[i] : i \in DOMAIN s }

HasCol(df, c) == c \in Range(df.cols)

\* MINIMUM_REQUIRED_COLUMNS
MINIMUM_REQUIRED_COLUMNS == <<"endpoint">>

\* The column names whose lower-cased text contains one of the keywords
\* 'slack', 'target', 'output', 'result', 'prediction'.
HasTargetKeyword(c) == c \in {"slack", "setup_result"}

normalize_endpoint(endpoint) ==
    IF Len(endpoint) >= 2
    THEN <<endpoint[Len(endpoint) - 1], endpoint[Len(endpoint)]>>
    ELSE endpoint

validate_table_for_slack_prediction(data) ==
    /\ Len(data.rows) # 0
    /\ \A i \in DOMAIN MINIMUM_REQUIRED_COLUMNS : HasCol(data.schema, MINIMUM_REQUIRED_COLUMNS[i])
    /\ data.schema.numeric # {}

\* Variant that prefers the last of the columns with a target keyword.
LastKeywordColumn(df) ==
    LET potential_targets == SelectSeq(df.cols, LAMBDA c : HasTargetKeyword(c) /\ c \in df.numeric)
        numeric_cols      == SelectSeq(df.cols, LAMBDA c : c \in df.numeric)
    IN  IF potential_targets # <<>> THEN potential_targets[Len(potential_targets)]
        ELSE IF numeric_cols # <<>> THEN numeric_cols[Len(numeric_cols)]
        ELSE "None"

\* "None" stands for Python's None.
get_target_column(df) ==
    LET potential_targets == SelectSeq(df.cols, LAMBDA c : HasTargetKeyword(c) /\ c \in df.numeric)
        numeric_cols      == SelectSeq(df.cols, LAMBDA c : c \in df.numeric)
    IN  IF potential_targets # <<>> THEN potential_targets[1]
        ELSE IF numeric_cols # <<>> THEN numeric_cols[Len(numeric_cols)]
        ELSE "None"

\* Entries of column c that pd.to_numeric(errors='coerce') keeps: every entry
\* of a numeric column (clean_data_for_training filled its NaN), none of an
\* object column (one numeric entry would have made the column numeric),
\* except for the endpoint column, which clean_data_for_training leaves as
\* it is (lines 358-360), and for its copy 'normalized_endpoint': those of
\* their entries that are written as a number.
NumericCount(df, c) ==
    IF c \in df.numeric THEN df.nrows
    ELSE IF c \in {"endpoint", "normalized_endpoint"} THEN df.endpoint_numeric
    ELSE 0

detect_feature_columns(df, target_col) ==
    SelectSeq(df.cols, LAMBDA c : /\ c # target_col
                                  /\ NumericCount(df, c) * 10 > df.nrows * 8)

get_available_feature_columns(df) ==
    LET target_col == get_target_column(df)
    IN  SelectSeq(df.cols, LAMBDA c : c # "endpoint" /\ c # target_col /\ c \in df.numeric)

\* A fetched and aligned table as train_model holds it: the columns with the
\* added 'normalized_endpoint', the numeric ones and the number of rows left
\* after filter and deduplication.
Frame(schema, n) ==
    [cols |-> schema.cols \o <<"normalized_endpoint">>, numeric |-> schema.numeric, nrows |-> n,
     endpoint_numeric |-> 0]

NormalizedSet(t) == { normalize_endpoint(t.rows[i]) : i \in DOMAIN t.rows }

(***************************************************************************)
(* The process-wide state of the service (module globals, lines 110-139    *)
(* and 925-943) and the position and locals of the running train_model.    *)
(* An artifact carries the number of the training run that assigned it;    *)
(* run 0 is the value the module starts with (None, or an empty list).  A  *)
(* feature list is held as the base columns it was engineered from.        *)
(***************************************************************************)
VARIABLES model_place_to_cts, model_combined_to_route, scaler_place, scaler_combined,
          base_feature_columns, trained_place_feature_columns,
          trained_cts_feature_columns, trained_target_columns,
          last_trained_tables, training_status,
          pc, runs, tr, predict_result,
          fe, co, al, sc

artifacts == <<model_place_to_cts, model_combined_to_route, scaler_place, scaler_combined,
               base_feature_columns, trained_place_feature_columns,
               trained_cts_feature_columns, trained_target_columns>>

svars == <<model_place_to_cts, model_combined_to_route, scaler_place, scaler_combined,
           base_feature_columns, trained_place_feature_columns,
           trained_cts_feature_columns, trained_target_columns,
           last_trained_tables, training_status, pc, runs, tr, predict_result>>

vars == <<svars, fe, co, al, sc>>

NoColumns == <<>>
NoModel   == [run |-> 0, fitted |-> FALSE, cols |-> NoColumns]
NoRouteModel ==
    [run |-> 0, fitted |-> FALSE, cols |-> NoColumns,
     route_stats |-> 0, place_stats |-> 0, cts_stats |-> 0]
NoList    == [run |-> 0, cols |-> NoColumns]
NoTarget  == [run |-> 0, col |-> "None"]
NoFrame   == [cols |-> NoColumns, numeric |-> {}, nrows |-> 0, endpoint_numeric |-> 0]
InitArtifacts ==
    <<NoModel, NoRouteModel, NoModel, NoModel, NoList, NoList, NoList,
      [cts_target |-> NoTarget, route_target |-> NoTarget]>>
NoLocals  == [run |-> 0, pre |-> InitArtifacts, place |-> NoFrame, cts |-> NoFrame, route |-> NoFrame,
              cts_target_col |-> "None", route_target_col |-> "None",
              place_features |-> NoColumns, cts_features |-> NoColumns,
              valid |-> FALSE, common |-> -1, error |-> "None"]
NoResult  == [status |-> "none", detail |-> "none", rows |-> 0, merged |-> 0,
              path |-> "none", used |-> {}, stats |-> 0, valid |-> FALSE, common |-> -1]

ServiceInit ==
    /\ model_place_to_cts = NoModel
    /\ model_combined_to_route = NoRouteModel
    /\ scaler_place = NoModel
    /\ scaler_combined = NoModel
    /\ base_feature_columns = NoList
    /\ trained_place_feature_columns = NoList
    /\ trained_cts_feature_columns = NoList
    /\ trained_target_columns = [cts_target |-> NoTarget, route_target |-> NoTarget]
    /\ last_trained_tables = 0
    /\ training_status = [is_training |-> FALSE, progress |-> 0, stage |-> "idle",
                          current_step |-> 0, total_steps |-> 0,
                          error |-> "None", metrics |-> 0]
    /\ pc = "idle"
    /\ runs = 0
    /\ tr = NoLocals
    /\ predict_result = NoResult

\* Variant in which an error leaves is_training as it is.
ErrorKeepsTraining(st, progress, stage, current_step, total_steps, error, metrics) ==
    [is_training  |-> st.is_training,
     progress     |-> IF progress # -1 THEN progress ELSE st.progress,
     stage        |-> IF stage # "None" THEN stage ELSE st.stage,
     current_step |-> IF current_step # -1 THEN current_step ELSE st.current_step,
     total_steps  |-> IF total_steps # -1 THEN total_steps ELSE st.total_steps,
     error        |-> IF error # "None" THEN error ELSE st.error,
     metrics      |-> IF metrics # 0 THEN metrics ELSE st.metrics]

\* update_training_status: a field is assigned when its argument is not None,
\* and an error also clears is_training.
update_training_status(st, progress, stage, current_step, total_steps, error, metrics) ==
    [is_training  |-> IF error # "None" THEN FALSE ELSE st.is_training,
     progress     |-> IF progress # -1 THEN progress ELSE st.progress,
     stage        |-> IF stage # "None" THEN stage ELSE st.stage,
     current_step |-> IF current_step # -1 THEN current_step ELSE st.current_step,
     total_steps  |-> IF total_steps # -1 THEN total_steps ELSE st.total_steps,
     error        |-> IF error # "None" THEN error ELSE st.error,
     metrics      |-> IF metrics # 0 THEN metrics ELSE st.metrics]

Raise(msg) ==
    /\ tr' = [tr EXCEPT !.error = msg]
    /\ pc' = "except"

\* Variant in which the alignment check lets an empty intersection through.
AlignmentNeverEmpty(common_endpoints) == FALSE

\* len(common_endpoints) == 0 (lines 4214 and 2756)
NoCommonEndpoints(common_endpoints) == Cardinality(common_endpoints) = 0

\* train_model, lines 4108-4140: the status is reset and the run starts.
TrainStart ==
    /\ pc = "idle"
    /\ runs < MaxRuns
    /\ runs' = runs + 1
    /\ training_status' =
         update_training_status(
           update_training_status(
             [training_status EXCEPT !.is_training = TRUE, !.error = "None", !.metrics = 0],
             0, "initialization", 1, 10, "None", 0),
           10, "validation", 2, -1, "None", 0)
    /\ tr' = [NoLocals EXCEPT !.run = runs + 1, !.pre = artifacts]
    /\ pc' = "load"
    /\ predict_result' = NoResult
    /\ UNCHANGED <<artifacts, last_trained_tables>>

\* train_model, lines 4146-4240: the tables are fetched, cleaned, validated,
\* normalized, intersected, filtered, sorted and deduplicated.  The tables of
\* a request exist in the database (the database layer is not modelled).
TrainLoad(place, cts, route) ==
    LET common_endpoints ==
            NormalizedSet(place) \cap NormalizedSet(cts) \cap NormalizedSet(route)
        n == Cardinality(common_endpoints)
        loaded == update_training_status(training_status, 20, "data_loading", 3, -1, "None", 0)
        \* what the request was, kept for the properties: whether its tables
        \* pass validation and how many normalized endpoints they share
        valid == \A t \in {place, cts, route} : validate_table_for_slack_prediction(t)
        seen  == [tr EXCEPT !.valid = valid, !.common = n]
    IN
    /\ pc = "load"
    /\ training_status' = loaded
    /\ IF ~valid
       THEN /\ tr' = [seen EXCEPT !.error = "missing_required_columns"]
            /\ pc' = "except"
       ELSE IF NoCommonEndpoints(common_endpoints)
       THEN /\ tr' = [seen EXCEPT !.error = "no_common_endpoints"]
            /\ pc' = "except"
       ELSE /\ tr' = [seen EXCEPT !.place = Frame(place.schema, n),
                                  !.cts   = Frame(cts.schema, n),
                                  !.route = Frame(route.schema, n)]
            /\ pc' = "place_features"
    /\ UNCHANGED <<artifacts, last_trained_tables, runs, predict_result>>

\* train_model, lines 4244-4276: CTS target and place features are detected,
\* the place features engineered, and base_feature_columns,
\* trained_place_feature_columns and the CTS target name stored.
TrainPlaceFeatures ==
    LET cts_target_col        == get_target_column(tr.cts)
        place_feature_columns == detect_feature_columns(tr.place, cts_target_col)
    IN
    /\ pc = "place_features"
    /\ IF cts_target_col = "None"
       THEN Raise("no_cts_target")
            /\ UNCHANGED <<artifacts, training_status>>
       ELSE IF place_feature_columns = <<>>
       THEN Raise("no_place_features")
            /\ UNCHANGED <<artifacts, training_status>>
       ELSE /\ base_feature_columns' =
                 [run |-> tr.run, cols |-> get_available_feature_columns(tr.place)]
            /\ trained_place_feature_columns' = [run |-> tr.run, cols |-> place_feature_columns]
            /\ trained_target_columns' =
                 [trained_target_columns EXCEPT
                    !.cts_target = [run |-> tr.run, col |-> cts_target_col]]
            /\ training_status' =
                 update_training_status(training_status, 40, "preprocessing", 4, -1, "None", 0)
            /\ tr' = [tr EXCEPT !.cts_target_col = cts_target_col,
                                !.place_features = place_feature_columns]
            /\ pc' = "place_model"
            /\ UNCHANGED <<model_place_to_cts, model_combined_to_route, scaler_place,
                           scaler_combined, trained_cts_feature_columns>>
    /\ UNCHANGED <<last_trained_tables, runs, predict_result>>

\* train_test_split(test_size=0.3) raises when the train part would be empty.
SplitRaises(n) == n < 2

\* fit(validation_split=0.2) raises when the 70% train part cannot be split
\* into a training and a validation set, that is with fewer than 3 rows.
FitRaises(n) == n < 3

\* train_model, lines 4278-4337: scaler_place is replaced and fitted, the data
\* split, model_place_to_cts replaced by a new network and fitted.  fitted is
\* the outcome of the external regressor's fit.
TrainPlaceModel(fitted) ==
    LET fit_ok == fitted /\ ~FitRaises(tr.place.nrows) IN
    /\ pc = "place_model"
    /\ scaler_place' = [run |-> tr.run, fitted |-> TRUE, cols |-> tr.place_features]
    /\ IF SplitRaises(tr.place.nrows)
       THEN Raise("train_test_split")
            /\ UNCHANGED <<model_place_to_cts, training_status>>
       ELSE /\ model_place_to_cts' =
                 [run |-> tr.run, fitted |-> fit_ok, cols |-> tr.place_features]
            /\ training_status' =
                 update_training_status(training_status, 50, "training_model_1", 5, -1, "None", 0)
            /\ IF fit_ok
               THEN pc' = "cts_features" /\ tr' = tr
               ELSE Raise("fit_place_to_cts")
    /\ UNCHANGED <<model_combined_to_route, scaler_combined, base_feature_columns,
                   trained_place_feature_columns, trained_cts_feature_columns,
                   trained_target_columns, last_trained_tables, runs,
                   predict_result>>

\* train_model, lines 4339-4367: route target and CTS features are detected,
\* the CTS features engineered, trained_cts_feature_columns and the route
\* target name stored.
TrainCtsFeatures ==
    LET route_target_col    == get_target_column(tr.route)
        cts_feature_columns == detect_feature_columns(tr.cts, route_target_col)
    IN
    /\ pc = "cts_features"
    /\ IF route_target_col = "None"
       THEN Raise("no_route_target") /\ UNCHANGED artifacts
       ELSE IF cts_feature_columns = <<>>
       THEN Raise("no_cts_features") /\ UNCHANGED artifacts
       ELSE /\ trained_cts_feature_columns' = [run |-> tr.run, cols |-> cts_feature_columns]
            /\ trained_target_columns' =
                 [trained_target_columns EXCEPT
                    !.route_target = [run |-> tr.run, col |-> route_target_col]]
            /\ tr' = [tr EXCEPT !.route_target_col = route_target_col,
                                !.cts_features = cts_feature_columns]
            /\ pc' = "route_model"
            /\ UNCHANGED <<model_place_to_cts, model_combined_to_route, scaler_place,
                           scaler_combined, base_feature_columns,
                           trained_place_feature_columns>>
    /\ UNCHANGED <<last_trained_tables, training_status, runs, predict_result>>

\* The combined feature columns: the place features renamed place_*, then the
\* CTS features renamed cts_*.
Combined(place_cols, cts_cols) == <<place_cols, cts_cols>>

\* train_model, lines 4369-4434: scaler_combined is replaced and fitted, the
\* data split, model_combined_to_route replaced by a new network and fitted.
TrainRouteModel(fitted) ==
    LET cols == Combined(tr.place_features, tr.cts_features)
        fit_ok == fitted /\ ~FitRaises(tr.place.nrows)
    IN
    /\ pc = "route_model"
    /\ scaler_combined' = [run |-> tr.run, fitted |-> TRUE, cols |-> cols]
    /\ IF SplitRaises(tr.place.nrows)
       THEN Raise("train_test_split")
            /\ UNCHANGED <<model_combined_to_route, training_status>>
       ELSE /\ model_combined_to_route' =
                 [NoRouteModel EXCEPT !.run = tr.run, !.fitted = fit_ok, !.cols = cols]
            /\ training_status' =
                 update_training_status(training_status, 70, "training_model_2", 7, -1, "None", 0)
            /\ IF fit_ok
               THEN pc' = "stats" /\ tr' = tr
               ELSE Raise("fit_combined_to_route")
    /\ UNCHANGED <<model_place_to_cts, scaler_place, base_feature_columns,
                   trained_place_feature_columns, trained_cts_feature_columns,
                   trained_target_columns, last_trained_tables, runs,
                   predict_result>>

\* train_model, lines 4436-4533: the statistics of the route target are stored
\* on the route model, then those of the 'slack' columns of the place and CTS
\* tables; the model is evaluated and the metrics reported.
TrainStats ==
    /\ pc = "stats"
    /\ IF "slack" \in Range(tr.place.cols) /\ "slack" \in Range(tr.cts.cols)
       THEN /\ model_combined_to_route' =
                 [model_combined_to_route EXCEPT !.route_stats = tr.run,
                                                 !.place_stats = tr.run,
                                                 !.cts_stats = tr.run]
            /\ training_status' =
                 update_training_status(training_status, 90, "evaluation", 9, -1, "None", tr.run)
            /\ pc' = "finish"
            /\ tr' = tr
       ELSE /\ model_combined_to_route' =
                 [model_combined_to_route EXCEPT !.route_stats = tr.run]
            /\ Raise("KeyError_slack")
            /\ UNCHANGED training_status
    /\ UNCHANGED <<model_place_to_cts, scaler_place, scaler_combined, base_feature_columns,
                   trained_place_feature_columns, trained_cts_feature_columns,
                   trained_target_columns, last_trained_tables, runs,
                   predict_result>>

\* train_model, lines 4535-4594: the table names are stored, the status set to
\* completed and the response returned.
TrainFinish ==
    /\ pc = "finish"
    /\ last_trained_tables' = tr.run
    /\ training_status' =
         [update_training_status(training_status, 100, "completed", 10, -1, "None", 0)
            EXCEPT !.is_training = FALSE]
    /\ pc' = "idle"
    /\ tr' = NoLocals
    /\ UNCHANGED <<artifacts, runs, predict_result>>

\* train_model, lines 4596-4620: the handler of every exception of the run.
TrainExcept ==
    /\ pc = "except"
    /\ training_status' = update_training_status(training_status, 0, "error", -1, -1, tr.error, 0)
    /\ pc' = "idle"
    /\ tr' = NoLocals
    /\ UNCHANGED <<artifacts, last_trained_tables, runs, predict_result>>

(***************************************************************************)
(* predict (lines 2489-3270).  The handler runs without interleaving up to *)
(* its response; it reads the trained artifacts and writes none.  `used`   *)
(* collects the runs of the artifacts it read, `merged` the aligned rows,  *)
(* `rows` the PredictionRows of the response.                              *)
(***************************************************************************)
Failure(code, detail, used) ==
    [NoResult EXCEPT !.status = code, !.detail = detail, !.used = used]

\* The columns merge() suffixes with _place / _cts: those of both tables.
\* predict rebuilds its place_data and cts_data from these columns alone.
Overlap(left, right) == SelectSeq(left.cols, LAMBDA c : c \in Range(right.cols))

Extracted(own, other, n) ==
    [cols    |-> <<"normalized_endpoint">> \o Overlap(own, other),
     numeric |-> own.numeric \cap Range(other.cols),
     nrows   |-> n,
     endpoint_numeric |-> 0]

\* recreate_trained_features raises ValueError when a base column is missing.
MissingBaseColumns(df, base_columns) ==
    \E i \in DOMAIN base_columns : base_columns[i] \notin Range(df.cols)

\* scaler.transform / model.predict raise on an unfitted scaler or on columns
\* other than the ones they were built for; an unfitted network predicts.
TransformRaises(scaler, cols) == ~scaler.fitted \/ scaler.cols # cols
PredictRaises(model, cols)    == model.cols # cols

PredictOutcome(place, cts) ==
    LET common_endpoints == NormalizedSet(place) \cap NormalizedSet(cts)
        n          == Cardinality(common_endpoints)
        place_data == Extracted(place.schema, cts.schema, n)
        cts_data   == Extracted(cts.schema, place.schema, n)
        usedPlace  == {trained_place_feature_columns.run, base_feature_columns.run,
                       scaler_place.run, model_place_to_cts.run}
        usedRoute  == usedPlace \cup
                      {model_combined_to_route.run, scaler_combined.run,
                       trained_cts_feature_columns.run,
                       trained_target_columns.route_target.run}
        combined   == Combined(trained_place_feature_columns.cols,
                               trained_cts_feature_columns.cols)
        \* lines 3053-3096: the first KeyError leaves the loop.
        built      == IF "beginpoint" \in Range(place_data.cols) THEN n ELSE 0
        Success(path, used, stats) ==
            [NoResult EXCEPT !.status = "success", !.rows = built, !.merged = n,
                             !.path = path, !.used = used, !.stats = stats]
        \* what the request was, kept for the properties
        valid == /\ validate_table_for_slack_prediction(place)
                 /\ validate_table_for_slack_prediction(cts)
                 /\ HasCol(place.schema, "slack") /\ HasCol(cts.schema, "slack")
        Seen(r) == [r EXCEPT !.valid = valid, !.common = n]
    IN
    Seen(
    IF model_place_to_cts.run = 0
    THEN Failure("400", "models_not_trained", {})
    ELSE IF ~validate_table_for_slack_prediction(place) \/ ~validate_table_for_slack_prediction(cts)
    THEN Failure("400", "missing_required_columns", {model_place_to_cts.run})
    ELSE IF ~HasCol(place.schema, "slack") \/ ~HasCol(cts.schema, "slack")
    THEN Failure("500", "error_fetching_input_data", {model_place_to_cts.run})
    ELSE IF get_target_column(Frame(cts.schema, Len(cts.rows))) = "None"
    THEN Failure("400", "no_cts_target", {model_place_to_cts.run})
    ELSE IF NoCommonEndpoints(common_endpoints)
    THEN Failure("400", "no_common_endpoints", {model_place_to_cts.run})
    ELSE IF trained_place_feature_columns.cols = <<>>
    THEN Failure("500", "no_trained_model", {model_place_to_cts.run})
    ELSE IF MissingBaseColumns(place_data, base_feature_columns.cols)
    THEN Failure("500", "missing_base_columns", usedPlace \ {scaler_place.run})
    ELSE IF TransformRaises(scaler_place, trained_place_feature_columns.cols)
    THEN Failure("500", "scaler_place", usedPlace)
    ELSE IF PredictRaises(model_place_to_cts, trained_place_feature_columns.cols)
    THEN Failure("500", "model_place_to_cts", usedPlace)
    ELSE IF model_combined_to_route.run # 0 /\ scaler_combined.run # 0
    THEN IF trained_cts_feature_columns.cols = <<>>
         THEN Failure("500", "no_trained_cts_features", usedRoute)
         ELSE IF TransformRaises(scaler_combined, combined)
         THEN Failure("500", "scaler_combined", usedRoute)
         ELSE IF PredictRaises(model_combined_to_route, combined)
         THEN Failure("500", "model_combined_to_route", usedRoute)
         ELSE IF model_combined_to_route.route_stats = 0
         THEN Success("model_unbounded", usedRoute, 0)
         ELSE IF model_combined_to_route.place_stats = 0
         THEN Failure("500", "AttributeError_training_place_stats",
                      usedRoute \cup {model_combined_to_route.route_stats})
         ELSE Success("model_bounded",
                      usedRoute \cup {model_combined_to_route.route_stats,
                                      model_combined_to_route.place_stats,
                                      model_combined_to_route.cts_stats},
                      model_combined_to_route.route_stats)
    ELSE Success("fallback", usedPlace \cup {model_combined_to_route.run, scaler_combined.run}, 0))

Predict(place, cts) ==
    /\ pc = "idle"
    /\ predict_result' = PredictOutcome(place, cts)
    /\ UNCHANGED <<artifacts, last_trained_tables, training_status, pc, runs, tr>>

ServiceNext ==
    \/ TrainStart
    \/ \E place, cts, route \in Tables : TrainLoad(place, cts, route)
    \/ TrainPlaceFeatures
    \/ \E fit_ok \in BOOLEAN : TrainPlaceModel(fit_ok)
    \/ TrainCtsFeatures
    \/ \E fit_ok \in BOOLEAN : TrainRouteModel(fit_ok)
    \/ TrainStats
    \/ TrainFinish
    \/ TrainExcept
    \/ \E place, cts \in Tables : Predict(place, cts)

Init ==
    /\ ServiceInit
    /\ fe = 0
    /\ co = 0
    /\ al = 0
    /\ sc = 0

Next == ServiceNext /\ UNCHANGED <<fe, co, al, sc>>

Spec == Init /\ [][Next]_vars

(***************************************************************************)
(* Properties of the service specification Spec.                           *)
(***************************************************************************)
FeatureSpec == <<trained_place_feature_columns, trained_cts_feature_columns>>

\* The runs that assigned the artifacts a response was computed from.
RunsUsed == predict_result.used \ {0}

\* C1: a prediction never uses a mix of artifacts: the feature lists, base
\* columns, scalers, models and statistics a successful predict read were all
\* assigned by one and the same training run.
C1_PredictReadsOneRun ==
    predict_result.status = "success" => Cardinality(RunsUsed) <= 1

\* C4: every training run writes the training statistics (so a run that has
\* ended, successfully or not, has attached its own statistics to the route
\* model), and a prediction issued after a training run applies its bounds with
\* the statistics written by that most recent run.
C4_BoundsUseLatestStats ==
    /\ pc \in {"finish", "except"} => model_combined_to_route.route_stats = tr.run
    /\ predict_result.status = "success"
          => (predict_result.path = "model_bounded" /\ predict_result.stats = runs)

BeforeCompletion ==
    {"load", "place_features", "place_model", "cts_features", "route_model",
     "stats", "except"}

\* C5: the stored FeatureSpec changes only at the completion of a training
\* run; while a run is in progress, and after it has ended in failure, the
\* FeatureSpec is what it was before the run started.
C5_FeatureSpecWrittenAtCompletion ==
    pc \in BeforeCompletion => FeatureSpec = <<tr.pre[6], tr.pre[7]>>

SchemaErrors ==
    {"missing_required_columns", "no_cts_target", "no_place_features",
     "no_route_target", "no_cts_features"}

\* C6: a training run that fails with a schema error (no target column or no
\* qualifying feature column in one of its tables) has fitted no model and
\* written no trained artifact.
C6_SchemaErrorBeforeAnyWrite ==
    (pc = "except" /\ tr.error \in SchemaErrors) => artifacts = tr.pre

C7_EmptyIntersectionState ==
    /\ (pc = "except" /\ tr.common = 0)
          => /\ artifacts = tr.pre
             /\ tr.valid => tr.error = "no_common_endpoints"
    /\ (predict_result.status # "none" /\ predict_result.common = 0)
          => /\ predict_result.status # "success"
             /\ predict_result.rows = 0
             /\ (predict_result.valid /\ model_place_to_cts.run # 0)
                   => predict_result.detail = "no_common_endpoints"

C7_PredictWritesNothing ==
    (predict_result' # predict_result /\ predict_result'.common = 0)
        => artifacts' = artifacts

C9_OneRowPerMergedRow ==
    predict_result.status = "success" => predict_result.rows = predict_result.merged

(***************************************************************************)
(* Feature engineering (SpecFeatures).                                     *)
(* A column name is the list of its '_'-separated tokens, <<"a", "ratio">> *)
(* being 'a_ratio'.  A raw table is the list of its columns, all of        *)
(* numeric dtype and finite; a column is either positive in every row or   *)
(* negative in every row.  A column value is the expression that computes  *)
(* it from the raw columns, so two values are equal when the same          *)
(* computation was applied to the same raw columns.                        *)
(***************************************************************************)
\* Longest table, in columns.
MaxCols == 3

ColumnPool ==
    { <<"a">>, <<"b">>, <<"a", "a">>, <<"a", "ratio">>, <<"a", "squared">>,
      <<"delay">>, <<"count", "delay">>, <<"count">> }

\* Columns that may hold negative values only.
NegativePool == { <<"b">> }

RawColumns ==
    { [name |-> n, sign |-> "pos"] : n \in ColumnPool }
        \cup { [name |-> n, sign |-> "neg"] : n \in NegativePool }

Names(df) == [i \in DOMAIN df |-> df[i].name]

Injective(s) == \A i, j \in DOMAIN s : i # j => s[i] # s[j]

RawTables ==
    UNION { { df \in [1..k -> RawColumns] : Injective(Names(df)) } : k \in 1..MaxCols }

\* The base columns handed to the Feature Engineer: the columns that
\* detect_feature_columns finds (lines 1033-1066), which are the numeric
\* columns in table order, all of them or all but the excluded target column.
BaseLists(df) ==
    {Names(df)}
        \cup { SelectSeq(Names(df), LAMBDA c : c # Names(df)[k]) :
                 k \in { j \in DOMAIN df : Len(df) > 1 } }

\* Column values.
Raw(col)           == <<"raw", col.name, col.sign>>
Zero               == <<"zero">>
Ratio(x, y)        == <<"ratio", x, y>>          \* x / (abs(y) + 1e-8)
Interaction(x, y)  == <<"interaction", x, y>>    \* x * y
Squared(x)         == <<"squared", x>>           \* x ** 2
Log(x)             == <<"log", x>>               \* np.log(x + 1e-8) where x > 0, else 0
Sum(xs)            == <<"sum", xs>>              \* df[cols].sum(axis=1)

RECURSIVE Sign(_)
Sign(v) ==
    CASE v[1] = "raw"         -> v[3]
      [] v[1] = "zero"        -> "zero"
      [] v[1] = "squared"     -> IF Sign(v[2]) = "zero" THEN "zero" ELSE "pos"
      [] v[1] = "ratio"       -> Sign(v[2])
      [] v[1] = "interaction" ->
            IF "zero" \in {Sign(v[2]), Sign(v[3])} THEN "zero"
            ELSE IF "mixed" \in {Sign(v[2]), Sign(v[3])} THEN "mixed"
            ELSE IF Sign(v[2]) = Sign(v[3]) THEN "pos" ELSE "neg"
      [] OTHER                -> "mixed"

\* positive_mask.sum() > 0 (lines 1239-1240 and 1334-1335)
HasPositive(v) == Sign(v) \in {"pos", "mixed"}

\* A DataFrame under construction: the list of <<name, value>> of its columns.
ColumnsOf(e) == [i \in DOMAIN e |-> e[i][1]]
HasColumn(e, name) == \E i \in DOMAIN e : e[i][1] = name
Get(e, name) == e[CHOOSE i \in DOMAIN e : e[i][1] = name][2]

\* engineered_df[name] = value: replaces the column in place or appends it.
Assign(e, name, value) ==
    IF HasColumn(e, name)
    THEN [i \in DOMAIN e |-> IF e[i][1] = name THEN <<name, value>> ELSE e[i]]
    ELSE Append(e, <<name, value>>)

\* df[base_columns].copy()
Select(df, base_columns) ==
    [i \in DOMAIN base_columns |->
        <<base_columns[i],
          Raw(df[CHOOSE k \in DOMAIN df : df[k].name = base_columns[i]])>>]

\* f"{col1}_{col2}_ratio", f"{col}_squared"
Name2(col1, col2, suffix) == col1 \o col2 \o <<suffix>>
Name1(col, suffix) == col \o <<suffix>>

\* 'delay' in col.lower(); fetch_data_from_db lower-cases the column names
\* (line 1736).
Mentions(col, word) ==
    \E i \in DOMAIN col :
        \/ col[i] = word
        \/ word = "delay" /\ col[i] = "delays"
        \/ word = "count" /\ col[i] = "counts"

\* replace([np.inf, -np.inf], np.nan) and the median fill (lines 1252-1261 and
\* 1344-1353): no value built from finite columns is infinite or NaN, the
\* divisor abs(y) + 1e-8 being positive and the logarithm taken of positive
\* rows only, so the frame is returned as it is.
CleanUp(e) == e

\* Variant of the pairing that names the later column first.
LaterColumnFirst(col1, rest) == [k \in DOMAIN rest |-> <<rest[k], col1>>]

\* The pairs (col1, col2) of the nested loops of lines 1288-1289, in order.
PairsWith(col1, rest) == [k \in DOMAIN rest |-> <<col1, rest[k]>>]

RECURSIVE PairsOf(_)
PairsOf(cols) ==
    IF Len(cols) < 2 THEN <<>>
    ELSE PairsWith(Head(cols), Tail(cols)) \o PairsOf(Tail(cols))

\* Lines 1290-1300: the ratio and the interaction of each pair of base columns.
RECURSIVE AddPairFeatures(_, _, _)
AddPairFeatures(e, pairs, base_columns) ==
    IF Len(pairs) = 0 THEN e
    ELSE LET col1 == Head(pairs)[1]
             col2 == Head(pairs)[2]
             withRatio ==
                 Assign(e, Name2(col1, col2, "ratio"),
                        Ratio(Get(e, col1), Get(e, col2)))
             withInteraction ==
                 Assign(withRatio, Name2(col1, col2, "interaction"),
                        Interaction(Get(withRatio, col1), Get(withRatio, col2)))
             \* the frame after this pass of the loop, complete before the next
             after == IF col1 \in Range(base_columns) /\ col2 \in Range(base_columns)
                      THEN withInteraction ELSE e
         IN  IF Len(after) >= Len(e)
             THEN AddPairFeatures(after, Tail(pairs), base_columns)
             ELSE after

\* engineered_df[cols].sum(axis=1)
SumOf(e, cols) == Sum([i \in DOMAIN cols |-> Get(e, cols[i])])

\* Variant that sums as soon as one column is related.
CombineFromOne(e, base_columns, word, name) ==
    LET cols == SelectSeq(base_columns, LAMBDA c : Mentions(c, word))
    IN  IF Len(cols) > 0 THEN Assign(e, name, SumOf(e, cols)) ELSE e

\* Lines 1306-1323: combined_delays and combined_counts.
AddCombined(e, base_columns, word, name) ==
    LET cols == SelectSeq(base_columns, LAMBDA c : Mentions(c, word))
    IN  IF Len(cols) > 1 THEN Assign(e, name, SumOf(e, cols)) ELSE e

\* Lines 1326-1342: the square of each base column and, when some row of it
\* is positive, its logarithm.
RECURSIVE AddStatistical(_, _, _)
AddStatistical(e, cols, numeric_cols) ==
    IF Len(cols) = 0 THEN e
    ELSE LET col == Head(cols)
             withSquared == Assign(e, Name1(col, "squared"), Squared(Get(e, col)))
             withLog ==
                 IF HasPositive(Get(withSquared, col))
                 THEN Assign(withSquared, Name1(col, "log"), Log(Get(withSquared, col)))
                 ELSE withSquared
             \* the frame after this pass of the loop, complete before the next
             after == IF col \in Range(numeric_cols) THEN withLog ELSE e
         IN  IF Len(after) >= Len(e)
             THEN AddStatistical(after, Tail(cols), numeric_cols)
             ELSE after

create_dynamic_features(df, base_columns) ==
    LET numeric_cols == Names(df)
        start    == Select(df, base_columns)
        paired   == AddPairFeatures(start, PairsOf(numeric_cols), base_columns)
        delays   == AddCombined(paired, base_columns, "delay", <<"combined", "delays">>)
        counts   == AddCombined(delays, base_columns, "count", <<"combined", "counts">>)
    IN  CleanUp(AddStatistical(counts, base_columns, numeric_cols))

\* '_ratio' in feature_name
Contains(feature_name, marker) ==
    \E i \in 2..Len(feature_name) : feature_name[i] = marker

\* feature_name.endswith('_squared')
EndsWith(feature_name, marker) ==
    Len(feature_name) >= 2 /\ feature_name[Len(feature_name)] = marker

\* feature_name.replace('_ratio', '').split('_')
Parts(feature_name, marker) ==
    <<Head(feature_name)>> \o SelectSeq(Tail(feature_name), LAMBDA t : t # marker)

\* The split points i of `for i in range(1, len(parts))` at which both
\* '_'.join(parts[:i]) and '_'.join(parts[i:]) are base columns.
SplitPoints(parts, base_columns) ==
    { i \in 1..(Len(parts) - 1) :
        /\ SubSeq(parts, 1, i) \in Range(base_columns)
        /\ SubSeq(parts, i + 1, Len(parts)) \in Range(base_columns) }

\* The split the loop stops at (lines 1186-1191 and 1204-1209).
FirstSplit(parts, base_columns) ==
    CHOOSE i \in SplitPoints(parts, base_columns) :
        \A j \in SplitPoints(parts, base_columns) : i <= j

\* Lines 1184-1197 and 1202-1215: a two-column feature is rebuilt from the
\* first split into two base columns; without one the fallback split
\* parts[0], '_'.join(parts[1:]) is tried and the frame is left as it is.
RecreatePair(e, feature_name, parts, base_columns, op) ==
    IF SplitPoints(parts, base_columns) # {}
    THEN LET i    == FirstSplit(parts, base_columns)
             col1 == SubSeq(parts, 1, i)
             col2 == SubSeq(parts, i + 1, Len(parts))
         IN  Assign(e, feature_name,
                    IF op = "ratio" THEN Ratio(Get(e, col1), Get(e, col2))
                    ELSE Interaction(Get(e, col1), Get(e, col2)))
    ELSE LET col1 == <<parts[1]>>
             col2 == Tail(parts)
         IN  IF col1 \in Range(base_columns) /\ col2 \in Range(base_columns)
             THEN Assign(e, feature_name,
                         IF op = "ratio" THEN Ratio(Get(e, col1), Get(e, col2))
                         ELSE Interaction(Get(e, col1), Get(e, col2)))
             ELSE e

\* Variant of the fill that uses the constant 1.
UnitFill(e, feature_name) == Assign(e, feature_name, <<"one">>)

\* Lines 1244-1246: the feature cannot be rebuilt and is filled with zeros.
ZeroFill(e, feature_name) == Assign(e, feature_name, Zero)

\* Lines 1181-1246: one pass of the loop over expected_engineered.
RecreateFeature(e, feature_name, base_columns) ==
    IF Contains(feature_name, "ratio")
    THEN IF Len(Parts(feature_name, "ratio")) >= 2
         THEN RecreatePair(e, feature_name, Parts(feature_name, "ratio"),
                           base_columns, "ratio")
         ELSE ZeroFill(e, feature_name)
    ELSE IF Contains(feature_name, "interaction")
    THEN IF Len(Parts(feature_name, "interaction")) >= 2
         THEN RecreatePair(e, feature_name, Parts(feature_name, "interaction"),
                           base_columns, "interaction")
         ELSE ZeroFill(e, feature_name)
    ELSE IF feature_name = <<"combined", "delays">>
    THEN LET delay_cols == SelectSeq(base_columns, LAMBDA c : Mentions(c, "delay"))
         IN  IF Len(delay_cols) > 1
             THEN Assign(e, feature_name, SumOf(e, delay_cols))
             ELSE ZeroFill(e, feature_name)
    ELSE IF feature_name = <<"combined", "counts">>
    THEN LET count_cols == SelectSeq(base_columns, LAMBDA c : Mentions(c, "count"))
         IN  IF Len(count_cols) > 1
             THEN Assign(e, feature_name, SumOf(e, count_cols))
             ELSE ZeroFill(e, feature_name)
    ELSE IF EndsWith(feature_name, "squared")
    THEN LET base_col == Parts(feature_name, "squared")
         IN  IF base_col \in Range(base_columns)
             THEN Assign(e, feature_name, Squared(Get(e, base_col)))
             ELSE ZeroFill(e, feature_name)
    ELSE IF EndsWith(feature_name, "log")
    THEN LET base_col == Parts(feature_name, "log")
         IN  IF base_col \in Range(base_columns)
             THEN Assign(e, feature_name,
                         IF HasPositive(Get(e, base_col))
                         THEN Log(Get(e, base_col)) ELSE Zero)
             ELSE ZeroFill(e, feature_name)
    ELSE ZeroFill(e, feature_name)

RECURSIVE RecreateAll(_, _, _)
RecreateAll(e, expected_engineered, base_columns) ==
    IF Len(expected_engineered) = 0 THEN e
    ELSE LET \* the frame after this pass of the loop, complete before the next
             after == RecreateFeature(e, Head(expected_engineered), base_columns)
         IN  IF Len(after) >= Len(e)
             THEN RecreateAll(after, Tail(expected_engineered), base_columns)
             ELSE after

\* Variant that returns the engineered frame without selecting its columns.
EngineeredFrame(final_df, e, trained_feature_columns) == e

\* Lines 1263-1270: the trained columns, in the trained order, are copied into
\* a new frame; one the engineered frame does not have is filled with zeros.
RECURSIVE FinalFrame(_, _, _)
FinalFrame(final_df, e, trained_feature_columns) ==
    IF Len(trained_feature_columns) = 0 THEN final_df
    ELSE LET col == Head(trained_feature_columns)
             \* the frame after this pass of the loop, complete before the next
             after == Assign(final_df, col,
                             IF HasColumn(e, col) THEN Get(e, col) ELSE Zero)
         IN  IF Len(after) >= Len(final_df)
             THEN FinalFrame(after, e, Tail(trained_feature_columns))
             ELSE after

\* Lines 1163-1165: `raise ValueError("Missing base columns in data: ...")`.
MissingBase(df, base_columns) ==
    \E i \in DOMAIN base_columns : base_columns[i] \notin Range(Names(df))

\* The frame recreate_trained_features returns when it does not raise.
recreate_trained_features(df, trained_feature_columns, base_columns) ==
    LET start == Select(df, base_columns)
        expected_engineered ==
            SelectSeq(trained_feature_columns, LAMBDA c : c \notin Range(base_columns))
        rebuilt == CleanUp(RecreateAll(start, expected_engineered, base_columns))
    IN  FinalFrame(<<>>, rebuilt, trained_feature_columns)

(***************************************************************************)
(* SpecFeatures: a table and its base columns are engineered as train_model*)
(* does (line 4260), the column list is kept (line 4265), and a later      *)
(* table is rebuilt from it as predict does (line 2915).                   *)
(***************************************************************************)
Drop(s, k) == [i \in 1..(Len(s) - 1) |-> IF i < k THEN s[i] ELSE s[i + 1]]

\* The table of the prediction request: the training table or that table
\* without one of its columns.
LaterTables(df) == {df} \cup { Drop(df, k) : k \in DOMAIN df }

\* The base columns handed to the rebuild: the list the features were built
\* from or, get_available_feature_columns leaving out the table's own target
\* (lines 961-976), that list without one column.
LaterBaseLists(base_columns) ==
    {base_columns}
        \cup { Drop(base_columns, k) : k \in { j \in DOMAIN base_columns : Len(base_columns) > 1 } }

FeatureInputs ==
    UNION { { [stage |-> "input", df |-> df, base_columns |-> b,
               engineered |-> <<>>, trained |-> <<>>,
               later_df |-> <<>>, later_base |-> <<>>, result |-> <<>>]
              : b \in BaseLists(df) } : df \in RawTables }

Engineer ==
    /\ fe.stage = "input"
    /\ LET engineered == create_dynamic_features(fe.df, fe.base_columns)
       IN  fe' = [fe EXCEPT !.stage = "engineered",
                            !.engineered = engineered,
                            !.trained = ColumnsOf(engineered)]
    /\ UNCHANGED <<svars, co, al, sc>>

Recreate(df, base_columns) ==
    /\ fe.stage = "engineered"
    /\ fe' = [fe EXCEPT
                !.stage = IF MissingBase(df, base_columns) THEN "raised" ELSE "recreated",
                !.later_df = df,
                !.later_base = base_columns,
                !.result = IF MissingBase(df, base_columns) THEN <<>>
                           ELSE recreate_trained_features(df, fe.trained, base_columns)]
    /\ UNCHANGED <<svars, co, al, sc>>

InitFeatures == ServiceInit /\ fe \in FeatureInputs /\ co = 0 /\ al = 0 /\ sc = 0

NextFeatures ==
    \/ Engineer
    \/ \E df \in LaterTables(fe.df) :
          \E base_columns \in LaterBaseLists(fe.base_columns) : Recreate(df, base_columns)

SpecFeatures == InitFeatures /\ [][NextFeatures]_vars

\* The rebuild was given the table and the base columns the features were
\* engineered from.
SameInputs ==
    /\ fe.stage \in {"recreated", "raised"}
    /\ fe.later_df = fe.df
    /\ fe.later_base = fe.base_columns

\* C2: round trip: rebuilding, from the unchanged table and the same base
\* columns, the column list create_dynamic_features returned yields the same
\* columns with the same values as create_dynamic_features.
C2_RoundTrip ==
    SameInputs => (fe.stage = "recreated" /\ fe.result = fe.engineered)

\* C3: the columns of the table recreate_trained_features returns are exactly
\* the trained feature names, in the same order.
C3_ColumnsAreTrainedNames ==
    fe.stage = "recreated" => ColumnsOf(fe.result) = fe.trained

\* A rebuild in which a trained feature could not be produced and is a zero
\* column of the returned table.
C3_Witness ==
    /\ fe.stage = "recreated"
    /\ \E i \in DOMAIN fe.result : fe.result[i][2] = Zero

\* C8: recreate_trained_features never raises.
C8_RecreateNeverRaises ==
    fe.stage # "raised"

(***************************************************************************)
(* The per-row corrector (SpecCorrector).  Slacks are fixed-point numbers  *)
(* in units of 0.00001; every input is a multiple of 0.3, which keeps each *)
(* product with the weights of the code an exact integer.                  *)
(***************************************************************************)
\* Largest input slack, in steps of 0.3.
MaxSlackSteps == 4

Tenths(n) == n * 10000

Abs(x) == IF x < 0 THEN -x ELSE x
Min2(x, y) == IF x <= y THEN x ELSE y
Max2(x, y) == IF x >= y THEN x ELSE y

Slacks == { Tenths(3 * k) : k \in (-MaxSlackSteps)..MaxSlackSteps }

\* Raw predictions of the route model, in steps of 0.9.
Predictions == { Tenths(9 * k) : k \in (-MaxSlackSteps)..MaxSlackSteps }

\* route_stats of a training run (lines 4443-4448): min <= mean <= max, std >= 0.
TrainingStats ==
    { [min |-> Tenths(-3), mean |-> Tenths(0), max |-> Tenths(3), std |-> Tenths(0)],
      [min |-> Tenths(-6), mean |-> Tenths(-3), max |-> Tenths(0), std |-> Tenths(3)],
      [min |-> Tenths(-30), mean |-> Tenths(3), max |-> Tenths(36), std |-> Tenths(9)] }

\* Lines 2284-2295: weight_to_worse, in hundredths, for the timing tier.
weight_to_worse(min_slack) ==
    IF Abs(min_slack) > Tenths(10) THEN 95
    ELSE IF Abs(min_slack) > Tenths(5) THEN 92
    ELSE IF Abs(min_slack) > Tenths(2) THEN 88
    ELSE 85

\* Lines 2284-2295: optimization for the timing tier (0.005, 0.01, 0.02, 0.025).
optimization(min_slack) ==
    IF Abs(min_slack) > Tenths(10) THEN 500
    ELSE IF Abs(min_slack) > Tenths(5) THEN 1000
    ELSE IF Abs(min_slack) > Tenths(2) THEN 2000
    ELSE 2500

calculate_realistic_route_slack(place_slack, cts_slack) ==
    LET min_slack == Min2(place_slack, cts_slack)
        max_slack == Max2(place_slack, cts_slack)
        avg_slack == (place_slack + cts_slack) \div 2
        w == weight_to_worse(min_slack)
        base_route == (min_slack * w) \div 100 + (avg_slack * (100 - w)) \div 100
        slack_diff == Abs(place_slack - cts_slack)
        optimization_factor == Min2(slack_diff \div 10, optimization(min_slack))
        route_slack == base_route + optimization_factor
        upper_bound == max_slack + 2000
        lower_bound == min_slack - 3000
    IN  Min2(Max2(route_slack, lower_bound), upper_bound)

\* Lines 2453-2465.
final_lower(place_slack, cts_slack, route_stats) ==
    LET min_input == Min2(place_slack, cts_slack)
        training_based_lower == route_stats.min - route_stats.std
        input_based_lower == min_input - (Abs(min_input) * 5) \div 10
    IN  Min2(input_based_lower, training_based_lower)

final_upper(place_slack, cts_slack, route_stats) ==
    LET max_input == Max2(place_slack, cts_slack)
        training_based_upper == route_stats.max + route_stats.std
        input_based_upper == max_input + (Abs(max_input) * 2) \div 10
    IN  Max2(input_based_upper, training_based_upper)

\* Variant that leaves the prediction as the model gave it.
Unbounded(pred, lower, upper) == pred

\* Lines 2468-2469: bounded_pred = min(max(pred, final_lower), final_upper)
Bounded(pred, lower, upper) == Min2(Max2(pred, lower), upper)

\* Variant of the sanity check that trusts every clamped prediction.
NeverOutlier(bounded_pred, place_slack, cts_slack) == FALSE

\* Line 2472: abs(bounded_pred - min_input) > 2.0
Outlier(bounded_pred, place_slack, cts_slack) ==
    Abs(bounded_pred - Min2(place_slack, cts_slack)) > Tenths(20)

\* One pass of the loop of apply_training_data_bounds.
apply_training_data_bounds(pred, place_slack, cts_slack, route_stats) ==
    LET bounded_pred ==
            Bounded(pred, final_lower(place_slack, cts_slack, route_stats),
                          final_upper(place_slack, cts_slack, route_stats))
    IN  IF Outlier(bounded_pred, place_slack, cts_slack)
        THEN calculate_realistic_route_slack(place_slack, cts_slack)
        ELSE bounded_pred

\* Lines 2978-2994, for a batch of one row: a raw prediction more than 1.1
\* below the smaller or above the larger input slack is replaced by the
\* estimate.
CleanGarbage(raw_pred, place_slack, cts_slack) ==
    IF \/ raw_pred < Min2(place_slack, cts_slack) - Tenths(1) - Tenths(10)
       \/ raw_pred > Max2(place_slack, cts_slack) + Tenths(1) + Tenths(10)
    THEN calculate_realistic_route_slack(place_slack, cts_slack)
    ELSE raw_pred

\* Variant that leaves the raw prediction uncorrected.
Uncorrected(raw_pred, place_slack, cts_slack) == raw_pred

\* Lines 2072-2175, for a batch of one row, where the standard deviations of
\* the batch are 0 and so are both z-scores and the correlation factor.
\* Weights are in thousandths or hundredths; quotients are rounded down to
\* 0.00001.
improve_route_predictions(raw_pred, place_slack, cts_slack) ==
    LET min_input_slack == Min2(place_slack, cts_slack)
        max_input_slack == Max2(place_slack, cts_slack)
        avg_input_slack == (place_slack + cts_slack) \div 2
        slack_difference == Abs(place_slack - cts_slack)
        critical_path_weight == 880 + Min2((slack_difference * 7) \div 1000, 70)
        base_route_slack ==
            (min_input_slack * critical_path_weight
                + avg_input_slack * (1000 - critical_path_weight)) \div 1000
        optimization_potential ==
            IF Abs(min_input_slack) > Tenths(8) THEN 500
            ELSE IF Abs(min_input_slack) > Tenths(4) THEN 1200
            ELSE IF Abs(min_input_slack) > Tenths(1) THEN 2500
            ELSE 3500
        optimization_factor ==
            Min2((optimization_potential * slack_difference)
                     \div (Abs(avg_input_slack) + Tenths(1)), 4000)
        expected_route_slack == base_route_slack + optimization_factor
        prediction_error == Abs(raw_pred - expected_route_slack)
        \* relative_error < percent / 100
        below(percent) == prediction_error * 100 <= Abs(expected_route_slack) * percent
        correction_weight ==
            IF below(1) THEN 5
            ELSE IF below(3) THEN 15
            ELSE IF below(6) THEN 35
            ELSE IF below(12) THEN 60
            ELSE IF below(25) THEN 80
            ELSE 95
        corrected ==
            (raw_pred * (100 - correction_weight)
                + expected_route_slack * correction_weight) \div 100
        upper_bound == max_input_slack + 800 + Min2((slack_difference * 5) \div 100, 2500)
        lower_bound ==
            min_input_slack - (1500 + Min2((Abs(min_input_slack) * 8) \div 100, 3500))
        soft == IF corrected > upper_bound
                THEN upper_bound + (corrected - upper_bound) \div 10
                ELSE IF corrected < lower_bound
                THEN lower_bound - (lower_bound - corrected) \div 10
                ELSE corrected
    IN  Min2(Max2(soft, min_input_slack - Tenths(1)), max_input_slack + 5000)

\* Line 2381: np.tanh, in thousandths, of an argument in thousandths: the
\* values of tanh at the multiples of 0.25 up to 3, joined by straight lines
\* (within 0.006 of tanh), and 1 beyond 3.
Tanh(x) ==
    LET table == <<0, 245, 462, 635, 762, 848, 905, 941, 964, 978, 987, 992, 995>>
        k == Abs(x) \div 250
        value == IF Abs(x) >= 3000 THEN 1000
                 ELSE table[k + 1]
                        + ((table[k + 2] - table[k + 1]) * (Abs(x) - 250 * k)) \div 250
    IN  IF x < 0 THEN -value ELSE value

\* Line 2385: abs(hash(f"{place_slack:.8f}_{cts_slack:.8f}")) % 10000.  The
\* hash of a string is salted with a value the interpreter draws when the
\* process starts: within one process the signature of a string is fixed,
\* and from one process to the next it is any value of 0..9999.
TimingSignatures == {0, 2500, 5000, 7500, 9999}

\* calculate_synthetic_route_slack, lines 2317-2430, for the signature the
\* running process gives to the two inputs.
calculate_synthetic_route_slack(place_slack, cts_slack, timing_signature) ==
    LET min_slack == Min2(place_slack, cts_slack)
        max_slack == Max2(place_slack, cts_slack)
        avg_slack == (place_slack + cts_slack) \div 2
        slack_difference == Abs(place_slack - cts_slack)
        slack_magnitude == Abs(avg_slack)
        timing_pressure == Abs(min_slack)
        critical_weight ==
            IF timing_pressure > Tenths(10) THEN 95
            ELSE IF timing_pressure > Tenths(6) THEN 92
            ELSE IF timing_pressure > Tenths(3) THEN 88
            ELSE IF timing_pressure > Tenths(1) THEN 84
            ELSE 80
        flexibility_factor ==
            IF timing_pressure > Tenths(10) THEN 200
            ELSE IF timing_pressure > Tenths(6) THEN 500
            ELSE IF timing_pressure > Tenths(3) THEN 1200
            ELSE IF timing_pressure > Tenths(1) THEN 2200
            ELSE 3500
        base_route_slack ==
            (min_slack * critical_weight + avg_slack * (100 - critical_weight)) \div 100
        optimization_base ==
            (flexibility_factor * slack_difference) \div (slack_magnitude + 5000)
        optimization_multiplier ==
            IF slack_difference > Tenths(2) THEN 14
            ELSE IF slack_difference > Tenths(1) THEN 12
            ELSE IF slack_difference > 5000 THEN 10
            ELSE 7
        optimization_factor == Min2((optimization_base * optimization_multiplier) \div 10, 4500)
        \* place_slack * cts_slack / (slack_magnitude + 1e-8), in thousandths
        product == (place_slack \div 100) * (cts_slack \div 100)
        timing_correlation ==
            IF slack_magnitude \div 100 > 0 THEN product \div (slack_magnitude \div 100)
            ELSE IF product > 0 THEN 3000
            ELSE IF product < 0 THEN -3000
            ELSE 0
        correlation_adjustment == (200 * Tanh(timing_correlation)) \div 1000
        signature_optimization ==
            (optimization_factor * (60000 + 4 * timing_signature)) \div 100000
        route_slack == base_route_slack + signature_optimization + correlation_adjustment
        improvement_margin ==
            IF slack_difference > 15000 THEN 2000
            ELSE IF slack_difference > 8000 THEN 1500
            ELSE 800
        upper_bound == max_slack + improvement_margin
        degradation_margin ==
            IF timing_pressure > Tenths(5) THEN 3500
            ELSE IF timing_pressure > Tenths(2) THEN 2500
            ELSE 1500
        lower_bound == min_slack - degradation_margin
        soft == IF route_slack > upper_bound
                THEN upper_bound + ((route_slack - upper_bound) * 15) \div 100
                ELSE IF route_slack < lower_bound
                THEN lower_bound - ((lower_bound - route_slack) * 15) \div 100
                ELSE route_slack
    IN  Min2(Max2(soft, min_slack - 8000), max_slack + 6000)

\* The values calculate_synthetic_route_slack can return for two inputs, one
\* for each signature.
SyntheticOutcomes(place_slack, cts_slack) ==
    { calculate_synthetic_route_slack(place_slack, cts_slack, timing_signature) :
        timing_signature \in TimingSignatures }

\* Lines 2199-2222: the statistical estimate of one row.
StatisticalEstimate(place_slack, cts_slack) ==
    LET min_slack == Min2(place_slack, cts_slack)
        max_slack == Max2(place_slack, cts_slack)
        w == IF Abs(min_slack) > Tenths(5) THEN 94
             ELSE IF Abs(min_slack) > Tenths(2) THEN 90
             ELSE 85
    IN  (min_slack * w + max_slack * (100 - w)) \div 100
            + Min2(((max_slack - min_slack) * 8) \div 100, 3000)

\* Line 2238 and the comparisons of lines 2241-2245: np.std(predictions) is
\* below the threshold.  16 times the variance of four numbers is the sum of
\* the squares of their six differences, and their standard deviation is at
\* least their spread divided by the square root of 8, so that a spread of
\* 0.17 or more puts it above every threshold of the code.
StdBelow(predictions, threshold) ==
    LET spread == Max2(Max2(predictions[1], predictions[2]), Max2(predictions[3], predictions[4]))
                    - Min2(Min2(predictions[1], predictions[2]), Min2(predictions[3], predictions[4]))
        sq(i, j) == (predictions[i] - predictions[j]) * (predictions[i] - predictions[j])
        variance16 == sq(1, 2) + sq(1, 3) + sq(1, 4) + sq(2, 3) + sq(2, 4) + sq(3, 4)
    IN  spread < 17000 /\ variance16 < 16 * threshold * threshold

\* Variant of the weighting that never looks at the agreement.
PoorAgreement(predictions) == <<10, 20, 55, 15>>

\* Lines 2241-2248: the weights, in hundredths.
EnsembleWeights(predictions) ==
    IF StdBelow(predictions, 1000) THEN <<30, 30, 25, 15>>
    ELSE IF StdBelow(predictions, 3000) THEN <<25, 35, 30, 10>>
    ELSE IF StdBelow(predictions, 6000) THEN <<15, 25, 40, 20>>
    ELSE <<10, 20, 55, 15>>

\* Lines 2190-2236: predictions = [raw_pred, physics_pred, synthetic_pred,
\* stat_pred] of one row.
EnsembleEstimates(raw_pred, place_slack, cts_slack, synthetic_pred) ==
    <<raw_pred,
      improve_route_predictions(raw_pred, place_slack, cts_slack),
      synthetic_pred,
      StatisticalEstimate(place_slack, cts_slack)>>

\* Lines 2251-2256.
WeightedSum(predictions, weights) ==
    (predictions[1] * weights[1] + predictions[2] * weights[2]
        + predictions[3] * weights[3] + predictions[4] * weights[4]) \div 100

\* ensemble_route_predictions, lines 2177-2260, for one row: the results for
\* the outcomes of the synthetic estimate.
ensemble_route_predictions(raw_pred, place_slack, cts_slack) ==
    { LET predictions == EnsembleEstimates(raw_pred, place_slack, cts_slack, synthetic_pred)
      IN  WeightedSum(predictions, EnsembleWeights(predictions))
      : synthetic_pred \in SyntheticOutcomes(place_slack, cts_slack) }

CorrectorInputs ==
    [stage : {"input"}, pred : Predictions, place_slack : Slacks, cts_slack : Slacks,
     route_stats : TrainingStats, outlier : {FALSE}, passed : {0}, result : {0},
     predictions : {<<>>}, weights : {<<>>},
     signature : {0}, restarted : {FALSE}, again : {0}]

\* predict, lines 3006-3019: the bounds are applied to a row.
ApplyBounds ==
    /\ co.stage = "input"
    /\ co' = [co EXCEPT
                !.stage = "bounded",
                !.outlier =
                    Outlier(Bounded(co.pred,
                                    final_lower(co.place_slack, co.cts_slack, co.route_stats),
                                    final_upper(co.place_slack, co.cts_slack, co.route_stats)),
                            co.place_slack, co.cts_slack),
                !.result = apply_training_data_bounds(co.pred, co.place_slack,
                                                      co.cts_slack, co.route_stats)]
    /\ UNCHANGED <<svars, fe, al, sc>>

\* predict, lines 3036-3043: without a route model the row is estimated.
RealisticSlack ==
    /\ co.stage = "input"
    /\ co' = [co EXCEPT
                !.stage = "estimated",
                !.result = calculate_realistic_route_slack(co.place_slack, co.cts_slack)]
    /\ UNCHANGED <<svars, fe, al, sc>>

\* predict, lines 2978-3019: the raw prediction of the route model for a row
\* is cleaned, corrected and passed to the bounds.
CorrectRoute ==
    /\ co.stage = "input"
    /\ LET raw_pred == CleanGarbage(co.pred, co.place_slack, co.cts_slack)
           route_prediction ==
               improve_route_predictions(raw_pred, co.place_slack, co.cts_slack)
       IN  co' = [co EXCEPT
                    !.stage = "corrected",
                    !.passed = route_prediction,
                    !.outlier =
                        Outlier(Bounded(route_prediction,
                                        final_lower(co.place_slack, co.cts_slack, co.route_stats),
                                        final_upper(co.place_slack, co.cts_slack, co.route_stats)),
                                co.place_slack, co.cts_slack),
                    !.result = apply_training_data_bounds(route_prediction, co.place_slack,
                                                          co.cts_slack, co.route_stats)]
    /\ UNCHANGED <<svars, fe, al, sc>>

\* ensemble_route_predictions, lines 2177-2260, applied to a row.
Ensemble ==
    /\ co.stage = "input"
    /\ \E synthetic_pred \in SyntheticOutcomes(co.place_slack, co.cts_slack) :
          LET predictions ==
                  EnsembleEstimates(co.pred, co.place_slack, co.cts_slack, synthetic_pred)
              weights == EnsembleWeights(predictions)
          IN  co' = [co EXCEPT
                       !.stage = "ensembled",
                       !.predictions = predictions,
                       !.weights = weights,
                       !.result = WeightedSum(predictions, weights)]
    /\ UNCHANGED <<svars, fe, al, sc>>

\* calculate_synthetic_route_slack, lines 2317-2430, called for the first
\* time in a process for the two slacks of a row.
Synthetic ==
    /\ co.stage = "input"
    /\ \E timing_signature \in TimingSignatures :
          co' = [co EXCEPT
                   !.stage = "synthetic",
                   !.signature = timing_signature,
                   !.result = calculate_synthetic_route_slack(co.place_slack, co.cts_slack,
                                                              timing_signature)]
    /\ UNCHANGED <<svars, fe, al, sc>>

\* The service process ends and a new one starts (lines 4928-4935): the
\* interpreter draws a new salt for the hashes of strings.
Restart ==
    /\ co.stage = "synthetic"
    /\ \E timing_signature \in TimingSignatures :
          co' = [co EXCEPT
                   !.stage = "restarted",
                   !.restarted = TRUE,
                   !.signature = timing_signature]
    /\ UNCHANGED <<svars, fe, al, sc>>

\* A later call of calculate_synthetic_route_slack with the same two slacks.
SyntheticAgain ==
    /\ co.stage \in {"synthetic", "restarted"}
    /\ co' = [co EXCEPT
                !.stage = "synthetic_again",
                !.again = calculate_synthetic_route_slack(co.place_slack, co.cts_slack,
                                                         co.signature)]
    /\ UNCHANGED <<svars, fe, al, sc>>

InitCorrector == ServiceInit /\ fe = 0 /\ co \in CorrectorInputs /\ al = 0 /\ sc = 0

NextCorrector ==
    \/ ApplyBounds
    \/ RealisticSlack
    \/ CorrectRoute
    \/ Ensemble
    \/ Synthetic
    \/ Restart
    \/ SyntheticAgain

SpecCorrector == InitCorrector /\ [][NextCorrector]_vars

\* C10: the value apply_training_data_bounds returns for a row lies within
\* [final_lower, final_upper], except on the outlier-rejection path, where it
\* is the physics-based estimate of the two input slacks.
C10_ResultWithinBounds ==
    co.stage = "bounded" =>
        IF co.outlier
        THEN co.result = calculate_realistic_route_slack(co.place_slack, co.cts_slack)
        ELSE /\ final_lower(co.place_slack, co.cts_slack, co.route_stats) <= co.result
             /\ co.result <= final_upper(co.place_slack, co.cts_slack, co.route_stats)

\* A row whose raw prediction lay outside the bounds and was clamped.
C10_Witness ==
    /\ co.stage = "bounded"
    /\ ~co.outlier
    /\ co.result # co.pred

(***************************************************************************)
(* Alignment (SpecAlign).  A source table is the list of its rows in the   *)
(* order fetch_data_from_db returns them; a row holds its raw endpoint (the*)
(* list of its '/'-separated segments), its begin-point and its slack, the *)
(* begin-point naming the table and the position the row was fetched at.   *)
(***************************************************************************)
\* Longest source table, in rows.
MaxRows == 2

\* "TOP/U1/R1": EpA in upper case.
EpU == <<"TOP", "U1", "R1">>

\* A NULL slack, np.nan after the fetch.
Missing == -1

RowKinds ==
    { [endpoint |-> EpA, missing |-> FALSE], [endpoint |-> EpB, missing |-> FALSE],
      [endpoint |-> EpC, missing |-> FALSE], [endpoint |-> EpU, missing |-> FALSE],
      [endpoint |-> EpB, missing |-> TRUE] }

\* The rows fetched from one table; the slack stored in row i is distinct for
\* distinct rows.
SourceTable(table_name, kinds) ==
    LET StoredSlack(i) ==
            (CASE table_name = "place" -> 100
               [] table_name = "cts"   -> 200
               [] OTHER                -> 300) + 10 * i
    IN  [i \in DOMAIN kinds |->
            [endpoint   |-> kinds[i].endpoint,
             beginpoint |-> <<table_name, i>>,
             slack      |-> IF kinds[i].missing THEN Missing ELSE StoredSlack(i)]]

\* The tables fetched: at least one row, the slack column not NULL throughout.
TableKinds ==
    UNION { { k \in [1..n -> RowKinds] : \E i \in 1..n : ~k[i].missing } : n \in 1..MaxRows }

\* Lines 346-404, for the slack column: a missing value becomes the median of
\* the values of the column that are not NaN; the endpoint column is left as
\* it is.
clean_data_for_training(data) ==
    LET present == SelectSeq([i \in DOMAIN data |-> data[i].slack], LAMBDA v : v # Missing)
        n == Len(present)
        sorted == CHOOSE srt \in [1..n -> Range(present)] :
                      /\ \A x \in Range(present) :
                            Cardinality({i \in 1..n : srt[i] = x})
                                = Cardinality({i \in 1..n : present[i] = x})
                      /\ \A i \in 1..(n - 1) : srt[i] <= srt[i + 1]
        median == IF n % 2 = 1 THEN sorted[(n + 1) \div 2]
                  ELSE (sorted[n \div 2] + sorted[n \div 2 + 1]) \div 2
    IN  [i \in DOMAIN data |->
            IF data[i].slack = Missing /\ n > 0
            THEN [data[i] EXCEPT !.slack = median]
            ELSE data[i]]

\* data['normalized_endpoint'] = data['endpoint'].apply(normalize_endpoint)
WithNormalized(data) ==
    [i \in DOMAIN data |->
        [endpoint |-> data[i].endpoint, beginpoint |-> data[i].beginpoint,
         slack |-> data[i].slack,
         normalized_endpoint |-> normalize_endpoint(data[i].endpoint)]]

KeysOf(data) == { data[i].normalized_endpoint : i \in DOMAIN data }

\* data[data['normalized_endpoint'].isin(common_endpoints)]
FilterCommon(data, common_endpoints) ==
    SelectSeq(data, LAMBDA r : r.normalized_endpoint \in common_endpoints)

\* Variant of the deduplication that keeps every row.
KeepDuplicates(data) == data

\* drop_duplicates(subset=['normalized_endpoint'], keep='first')
DropDuplicates(data) ==
    LET kept == { i \in DOMAIN data :
                    \A j \in 1..(i - 1) :
                        data[j].normalized_endpoint # data[i].normalized_endpoint }
        pos(k) == CHOOSE i \in kept : Cardinality({j \in kept : j <= i}) = k
    IN  [k \in 1..Cardinality(kept) |-> data[pos(k)]]

\* The order of the keys as strings: "U1/R1" < "u1/r1" < "u2/r2".
KeyRank(key) ==
    CASE key = <<"U1", "R1">> -> 1
      [] key = <<"u1", "r1">> -> 2
      [] OTHER                -> 3

\* sort_values(by='normalized_endpoint'), lines 4224-4226: the default kind is
\* 'quicksort', which is not stable, so rows with equal keys come out in any
\* order.
SortOutcomes(data) ==
    { [i \in DOMAIN data |-> data[f[i]]] : f \in
        { g \in [DOMAIN data -> DOMAIN data] :
            /\ \A i, j \in DOMAIN data : i # j => g[i] # g[j]
            /\ \A i \in 1..(Len(data) - 1) :
                KeyRank(data[g[i]].normalized_endpoint)
                    <= KeyRank(data[g[i + 1]].normalized_endpoint) } }

\* place_filtered.merge(cts_filtered, on='normalized_endpoint', how='inner',
\* suffixes=('_place', '_cts')): the order of the left keys is kept.
RECURSIVE Merge(_, _)
Merge(left, right) ==
    IF Len(left) = 0 THEN <<>>
    ELSE LET l == Head(left)
             matches == SelectSeq(right, LAMBDA r : r.normalized_endpoint = l.normalized_endpoint)
         IN  [k \in DOMAIN matches |->
                 [normalized_endpoint |-> l.normalized_endpoint,
                  endpoint_place   |-> l.endpoint,
                  beginpoint_place |-> l.beginpoint,
                  slack_place      |-> l.slack,
                  endpoint_cts     |-> matches[k].endpoint,
                  beginpoint_cts   |-> matches[k].beginpoint,
                  slack_cts        |-> matches[k].slack]]
             \o Merge(Tail(left), right)

\* Variant of the PredictionRow that reports the CTS row throughout.
CtsRow(merged_data, i) ==
    [beginpoint  |-> merged_data[i].beginpoint_cts,
     endpoint    |-> merged_data[i].endpoint_cts,
     place_slack |-> merged_data[i].slack_cts,
     cts_slack   |-> merged_data[i].slack_cts,
     route_slack |-> <<"predicted", i>>]

\* Lines 3058-3086: the PredictionRow of merged row i; the route value is the
\* output of the route model and the corrector for that row.
PredictionRow(merged_data, i) ==
    [beginpoint  |-> merged_data[i].beginpoint_place,
     endpoint    |-> merged_data[i].endpoint_place,
     place_slack |-> merged_data[i].slack_place,
     cts_slack   |-> merged_data[i].slack_cts,
     route_slack |-> <<"predicted", i>>]

AlignInputs ==
    { [stage |-> "input",
       place |-> SourceTable("place", p), cts |-> SourceTable("cts", c), route |-> <<>>,
       place_data |-> <<>>, cts_data |-> <<>>, route_data |-> <<>>,
       merged_data |-> <<>>, rows |-> <<>>] : p \in TableKinds, c \in TableKinds }

\* The route table of a training request: the endpoints of the place table,
\* of the CTS table, or of the CTS table in the opposite row order.
RouteTables ==
    LET KindsOf(table) ==
            [i \in DOMAIN table |->
                [endpoint |-> table[i].endpoint, missing |-> table[i].slack = Missing]]
        Reverse(s) == [i \in DOMAIN s |-> s[Len(s) + 1 - i]]
    IN  { SourceTable("route", k) :
            k \in {KindsOf(al.place), KindsOf(al.cts), Reverse(KindsOf(al.cts))} }

\* predict, lines 2668-2796 and 3053-3096.
AlignPredict ==
    LET place_data == WithNormalized(clean_data_for_training(al.place))
        cts_data   == WithNormalized(clean_data_for_training(al.cts))
        common_endpoints == KeysOf(place_data) \cap KeysOf(cts_data)
        place_filtered == DropDuplicates(FilterCommon(place_data, common_endpoints))
        cts_filtered   == DropDuplicates(FilterCommon(cts_data, common_endpoints))
        merged_data == Merge(place_filtered, cts_filtered)
    IN
    /\ al.stage = "input"
    /\ IF NoCommonEndpoints(common_endpoints)
       THEN al' = [al EXCEPT !.stage = "predict_no_common"]
       ELSE al' = [al EXCEPT !.stage = "predicted",
                             !.place_data = place_filtered,
                             !.cts_data = cts_filtered,
                             !.merged_data = merged_data,
                             !.rows = [i \in DOMAIN merged_data |->
                                          PredictionRow(merged_data, i)]]
    /\ UNCHANGED <<svars, fe, co, sc>>

\* train_model, lines 4168-4240.
AlignTrain(route) ==
    LET place_data == WithNormalized(clean_data_for_training(al.place))
        cts_data   == WithNormalized(clean_data_for_training(al.cts))
        route_data == WithNormalized(clean_data_for_training(route))
        common_endpoints ==
            KeysOf(place_data) \cap KeysOf(cts_data) \cap KeysOf(route_data)
    IN
    /\ al.stage = "input"
    /\ IF NoCommonEndpoints(common_endpoints)
       THEN al' = [al EXCEPT !.stage = "train_no_common", !.route = route]
       ELSE \E place_sorted \in SortOutcomes(FilterCommon(place_data, common_endpoints)),
               cts_sorted   \in SortOutcomes(FilterCommon(cts_data, common_endpoints)),
               route_sorted \in SortOutcomes(FilterCommon(route_data, common_endpoints)) :
               LET place_out == DropDuplicates(place_sorted)
                   cts_out   == DropDuplicates(cts_sorted)
                   route_out == DropDuplicates(route_sorted)
               IN  al' = [al EXCEPT
                            !.stage = IF Len(place_out) # Len(cts_out)
                                         \/ Len(cts_out) # Len(route_out)
                                      THEN "train_size_mismatch" ELSE "trained",
                            !.route = route,
                            !.place_data = place_out,
                            !.cts_data = cts_out,
                            !.route_data = route_out]
    /\ UNCHANGED <<svars, fe, co, sc>>

InitAlign == ServiceInit /\ fe = 0 /\ co = 0 /\ al \in AlignInputs /\ sc = 0

NextAlign ==
    \/ AlignPredict
    \/ \E route \in RouteTables : AlignTrain(route)

SpecAlign == InitAlign /\ [][NextAlign]_vars

\* str.lower() on one path segment, as in the first definition of
\* normalize_endpoint (lines 182-186), which the definition at lines 1361-1365
\* replaces.
LowerAll(endpoint) ==
    LET Lower(segment) ==
            CASE segment = "TOP" -> "top"
              [] segment = "U1"  -> "u1"
              [] segment = "R1"  -> "r1"
              [] OTHER           -> segment
    IN  [i \in DOMAIN endpoint |-> Lower(endpoint[i])]

\* C11: endpoints that differ only in letter case get the same normalized
\* key, and a place row and a CTS row whose endpoints differ only in letter
\* case are joined into a merged row of the prediction.
C11_CaseInsensitiveJoin ==
    al.stage \in {"predicted", "predict_no_common"} =>
        \A i \in DOMAIN al.place, j \in DOMAIN al.cts :
            LowerAll(al.place[i].endpoint) = LowerAll(al.cts[j].endpoint) =>
                /\ normalize_endpoint(al.place[i].endpoint)
                       = normalize_endpoint(al.cts[j].endpoint)
                /\ al.stage = "predicted"
                /\ \E m \in DOMAIN al.merged_data :
                       al.merged_data[m].normalized_endpoint
                           = normalize_endpoint(al.place[i].endpoint)

\* A prediction over tables holding the same endpoint in two letter cases.
C11_Witness ==
    /\ al.stage \in {"predicted", "predict_no_common"}
    /\ \E i \in DOMAIN al.place, j \in DOMAIN al.cts :
           /\ al.place[i].endpoint # al.cts[j].endpoint
           /\ LowerAll(al.place[i].endpoint) = LowerAll(al.cts[j].endpoint)

\* The row is the first row of its key in the table as it was fetched.
FirstOfKey(source, row) ==
    \A j \in DOMAIN source :
        normalize_endpoint(source[j].endpoint) = row.normalized_endpoint
            => row.beginpoint[2] <= j

\* C12: in training and in prediction, the row kept for a normalized endpoint
\* is the first row with that endpoint in the source row order of its table.
C12_FirstRowRetained ==
    al.stage \in {"trained", "train_size_mismatch", "predicted"} =>
        /\ \A i \in DOMAIN al.place_data : FirstOfKey(al.place, al.place_data[i])
        /\ \A i \in DOMAIN al.cts_data : FirstOfKey(al.cts, al.cts_data[i])
        /\ \A i \in DOMAIN al.route_data : FirstOfKey(al.route, al.route_data[i])

\* The prediction half of C12 on its own: without a sort before it, the
\* deduplication of predict keeps the first row of each key.
C12_PredictKeepsFirst ==
    al.stage = "predicted" =>
        /\ \A i \in DOMAIN al.place_data : FirstOfKey(al.place, al.place_data[i])
        /\ \A i \in DOMAIN al.cts_data : FirstOfKey(al.cts, al.cts_data[i])

\* A table with two rows of one key went through a deduplication.
C12_Witness ==
    /\ al.stage \in {"trained", "train_size_mismatch", "predicted"}
    /\ Len(al.place_data) < Len(al.place)
    /\ \E i, j \in DOMAIN al.place :
           /\ i < j
           /\ normalize_endpoint(al.place[i].endpoint) = normalize_endpoint(al.place[j].endpoint)
           /\ normalize_endpoint(al.place[i].endpoint) = al.place_data[1].normalized_endpoint

\* The normalized endpoints of a table as it was fetched.
SourceKeys(source) == { normalize_endpoint(source[i].endpoint) : i \in DOMAIN source }

\* The key of every row is the key of the fetched row it was taken from, and
\* every key of the set is the key of exactly one row.
OneRowPerKey(data, source, table_name, keys) ==
    /\ \A k \in keys :
           Cardinality({i \in DOMAIN data : data[i].normalized_endpoint = k}) = 1
    /\ \A i \in DOMAIN data :
           /\ data[i].normalized_endpoint \in keys
           /\ data[i].beginpoint[1] = table_name
           /\ data[i].beginpoint[2] \in DOMAIN source
           /\ normalize_endpoint(source[data[i].beginpoint[2]].endpoint)
                  = data[i].normalized_endpoint

\* C13: after the alignment every common normalized endpoint is in exactly one
\* row, every table contributes the same number of rows, and the rows put
\* together (one position of the three tables in training, one merged row in
\* prediction) were fetched with the same normalized endpoint.
C13_AlignedRows ==
    /\ al.stage # "train_size_mismatch"
    /\ al.stage = "trained" =>
           LET common == SourceKeys(al.place) \cap SourceKeys(al.cts) \cap SourceKeys(al.route)
           IN  /\ OneRowPerKey(al.place_data, al.place, "place", common)
               /\ OneRowPerKey(al.cts_data, al.cts, "cts", common)
               /\ OneRowPerKey(al.route_data, al.route, "route", common)
               /\ Len(al.place_data) = Len(al.cts_data)
               /\ Len(al.cts_data) = Len(al.route_data)
               /\ \A i \in DOMAIN al.place_data :
                      /\ al.place_data[i].normalized_endpoint
                             = al.cts_data[i].normalized_endpoint
                      /\ al.cts_data[i].normalized_endpoint
                             = al.route_data[i].normalized_endpoint
    /\ al.stage = "predicted" =>
           LET common == SourceKeys(al.place) \cap SourceKeys(al.cts)
               m == al.merged_data
           IN  /\ OneRowPerKey(al.place_data, al.place, "place", common)
               /\ OneRowPerKey(al.cts_data, al.cts, "cts", common)
               /\ Len(m) = Len(al.place_data)
               /\ Len(m) = Len(al.cts_data)
               /\ \A k \in common :
                      Cardinality({i \in DOMAIN m : m[i].normalized_endpoint = k}) = 1
               /\ \A i \in DOMAIN m :
                      /\ m[i].normalized_endpoint \in common
                      /\ m[i].beginpoint_place[1] = "place"
                      /\ m[i].beginpoint_cts[1] = "cts"
                      /\ normalize_endpoint(al.place[m[i].beginpoint_place[2]].endpoint)
                             = m[i].normalized_endpoint
                      /\ normalize_endpoint(al.cts[m[i].beginpoint_cts[2]].endpoint)
                             = m[i].normalized_endpoint

\* A training over two common endpoints that the place table and the CTS
\* table hold in opposite row orders.
C13_Witness ==
    /\ al.stage = "trained"
    /\ Len(al.place_data) = 2
    /\ Len(al.cts) = 2
    /\ normalize_endpoint(al.place[1].endpoint) = normalize_endpoint(al.cts[2].endpoint)
    /\ normalize_endpoint(al.place[1].endpoint) # normalize_endpoint(al.cts[1].endpoint)

\* The fetched row a retained row was taken from.
SourceRow(source, row) == source[row.beginpoint[2]]

\* Every PredictionRow reports the begin-point and the endpoint of the retained
\* place row of its key, a predicted route value, and as place and CTS values
\* the slack that the given tables hold in the rows retained for the key.
RowsReport(place, cts) ==
    /\ Len(al.rows) = Len(al.merged_data)
    /\ \A i \in DOMAIN al.rows :
           \E p \in DOMAIN al.place_data, c \in DOMAIN al.cts_data :
               /\ al.place_data[p].normalized_endpoint = al.merged_data[i].normalized_endpoint
               /\ al.cts_data[c].normalized_endpoint = al.merged_data[i].normalized_endpoint
               /\ al.rows[i].place_slack = SourceRow(place, al.place_data[p]).slack
               /\ al.rows[i].cts_slack = SourceRow(cts, al.cts_data[c]).slack
               /\ al.rows[i].beginpoint = SourceRow(place, al.place_data[p]).beginpoint
               /\ al.rows[i].endpoint = SourceRow(place, al.place_data[p]).endpoint
               /\ al.rows[i].route_slack = <<"predicted", i>>

C17_PairOperandsRecovered ==
    SameInputs /\ fe.stage = "recreated" =>
        \A i, j \in DOMAIN fe.base_columns :
            i < j =>
                LET colA == fe.base_columns[i]
                    colB == fe.base_columns[j]
                IN  /\ Get(fe.result, Name2(colA, colB, "ratio"))
                           = Ratio(Get(Select(fe.df, fe.base_columns), colA),
                                   Get(Select(fe.df, fe.base_columns), colB))
                    /\ Get(fe.result, Name2(colA, colB, "interaction"))
                           = Interaction(Get(Select(fe.df, fe.base_columns), colA),
                                         Get(Select(fe.df, fe.base_columns), colB))

\* A rebuild of the pair features of the columns a_a and a, whose name
\* a_a_a_ratio splits on base columns in two ways.
C17_Witness ==
    /\ SameInputs /\ fe.stage = "recreated"
    /\ fe.base_columns = << <<"a", "a">>, <<"a">> >>
    /\ Get(fe.result, <<"a", "a", "a", "ratio">>)
           = Ratio(Raw([name |-> <<"a">>, sign |-> "pos"]),
                   Raw([name |-> <<"a", "a">>, sign |-> "pos"]))

\* The raw values of a column of the table handed to the rebuild.
LaterRaw(name) ==
    Raw(fe.later_df[CHOOSE k \in DOMAIN fe.later_df : fe.later_df[k].name = name])

\* C18: every trained feature name that is a base (pass-through) column
\* present in the raw table is in the output with the raw values: those of the
\* base columns handed to the rebuild and, in predict, where the base columns
\* are the base_feature_columns stored by train_model, every pass-through
\* feature captured at training (copied, never zero-filled).
C18_PassThroughCopied ==
    fe.stage = "recreated" =>
        \A i \in DOMAIN fe.trained :
            LET name == fe.trained[i]
            IN  /\ name \in Range(Names(fe.later_df))
                /\ name \in Range(fe.later_base) \cup Range(fe.base_columns)
                => /\ fe.result[i][1] = name
                   /\ fe.result[i][2] = LaterRaw(name)

\* The half of C18 that is about the base columns handed to the rebuild.
C18_GivenBaseCopied ==
    fe.stage = "recreated" =>
        \A i \in DOMAIN fe.trained :
            LET name == fe.trained[i]
            IN  name \in Range(fe.later_base)
                => /\ fe.result[i][1] = name
                   /\ fe.result[i][2] = LaterRaw(name)

\* A rebuild with the stored base columns lacking a column that was a
\* pass-through feature at training and is in the raw table: its output column
\* is zero.
C18_Witness ==
    /\ fe.stage = "recreated"
    /\ \E i \in DOMAIN fe.base_columns :
           /\ fe.base_columns[i] \notin Range(fe.later_base)
           /\ fe.base_columns[i] \in Range(Names(fe.later_df))
           /\ fe.result[i] = <<fe.base_columns[i], Zero>>

\* The name is not a base column and no reconstruction rule applies to it.
MatchesNoRule(name, base_columns) ==
    /\ name \notin Range(base_columns)
    /\ ~Contains(name, "ratio") /\ ~Contains(name, "interaction")
    /\ name \notin { <<"combined", "delays">>, <<"combined", "counts">> }
    /\ ~EndsWith(name, "squared") /\ ~EndsWith(name, "log")

\* A rule applies to the name, but an operand column it names is not a base
\* column.
OperandNotInBase(name, base_columns) ==
    /\ name \notin Range(base_columns)
    /\ \/ /\ Contains(name, "ratio")
          /\ SplitPoints(Parts(name, "ratio"), base_columns) = {}
       \/ /\ ~Contains(name, "ratio") /\ Contains(name, "interaction")
          /\ SplitPoints(Parts(name, "interaction"), base_columns) = {}
       \/ /\ ~Contains(name, "ratio") /\ ~Contains(name, "interaction")
          /\ name \notin { <<"combined", "delays">>, <<"combined", "counts">> }
          /\ \/ EndsWith(name, "squared") /\ Parts(name, "squared") \notin Range(base_columns)
             \/ /\ ~EndsWith(name, "squared") /\ EndsWith(name, "log")
                /\ Parts(name, "log") \notin Range(base_columns)

C20_FallbackBeyondTwo ==
    co.stage = "bounded" =>
        LET clamped ==
                Min2(Max2(co.pred, final_lower(co.place_slack, co.cts_slack, co.route_stats)),
                     final_upper(co.place_slack, co.cts_slack, co.route_stats))
            min_input == IF co.place_slack <= co.cts_slack THEN co.place_slack
                         ELSE co.cts_slack
            far == clamped - min_input > Tenths(20) \/ min_input - clamped > Tenths(20)
        IN  /\ co.outlier = far
            /\ far => co.result = calculate_realistic_route_slack(co.place_slack, co.cts_slack)
            /\ ~far => co.result = clamped

\* A row whose clamped prediction was more than 2.0 away from the smaller
\* input slack and was replaced by the estimate.
C20_Witness ==
    /\ co.stage = "bounded"
    /\ co.outlier
    /\ co.result = calculate_realistic_route_slack(co.place_slack, co.cts_slack)
    /\ co.result # Min2(Max2(co.pred, final_lower(co.place_slack, co.cts_slack, co.route_stats)),
                        final_upper(co.place_slack, co.cts_slack, co.route_stats))

\* C16: the route value that predict passes to the bounds enforcement for a
\* row is the result of the Ensemble Corrector: the weighted sum of the raw,
\* the physics-based, the synthetic and the statistical estimate, with the
\* weights chosen by the standard deviation of the four.
C16_EnsemblePassedToBounds ==
    co.stage = "corrected" =>
        co.passed \in ensemble_route_predictions(
                          CleanGarbage(co.pred, co.place_slack, co.cts_slack),
                          co.place_slack, co.cts_slack)

\* A row passed to the bounds with the physics-based correction of a raw
\* prediction that the correction changed.
C16_Witness ==
    /\ co.stage = "corrected"
    /\ co.passed = improve_route_predictions(
                       CleanGarbage(co.pred, co.place_slack, co.cts_slack),
                       co.place_slack, co.cts_slack)
    /\ co.passed # co.pred
    /\ co.pred = CleanGarbage(co.pred, co.place_slack, co.cts_slack)

\* Agreement tier of four estimates: the first of the thresholds 0.01, 0.03
\* and 0.06 that their standard deviation is strictly below, 4 if none.
AgreementTier(predictions) ==
    IF StdBelow(predictions, 1000) THEN 1
    ELSE IF StdBelow(predictions, 3000) THEN 2
    ELSE IF StdBelow(predictions, 6000) THEN 3
    ELSE 4

\* C21: ensemble_route_predictions takes the weights for [raw, physics,
\* synthetic, statistical] from the standard deviation of the four estimates
\* with the exclusive upper thresholds 0.01, 0.03 and 0.06, [.10,.20,.55,.15]
\* otherwise, and returns the weighted sum; the estimates
\* [0.10, 0.12, 0.11, 0.30] take [.10,.20,.55,.15].
C21_WeightsByAgreement ==
    /\ EnsembleWeights(<<10000, 12000, 11000, 30000>>) = <<10, 20, 55, 15>>
    /\ co.stage = "ensembled" =>
          /\ co.weights =
                <<  <<30, 30, 25, 15>>, <<25, 35, 30, 10>>,
                    <<15, 25, 40, 20>>, <<10, 20, 55, 15>>  >>[AgreementTier(co.predictions)]
          /\ co.result =
                (co.predictions[1] * co.weights[1] + co.predictions[2] * co.weights[2]
                    + co.predictions[3] * co.weights[3]
                    + co.predictions[4] * co.weights[4]) \div 100

\* A row whose four estimates agree to within the second tier and differ.
C21_Witness ==
    /\ co.stage = "ensembled"
    /\ AgreementTier(co.predictions) = 2
    /\ co.weights = <<25, 35, 30, 10>>
    /\ co.predictions[1] # co.predictions[3]

\* C22: the physics-based estimate that the ensemble combines is the blend
\* min(A,B)*w + avg(A,B)*(1-w) plus an optimization term min(|A-B|*0.1, cap),
\* with (w, cap) taken from |min(A,B)| by the strict thresholds 1.0, 0.5 and
\* 0.2: (0.95, 0.005), (0.92, 0.01), (0.88, 0.02), otherwise (0.85, 0.025).
C22_PhysicsIsTieredBlend ==
    co.stage = "ensembled" =>
        LET min_slack == Min2(co.place_slack, co.cts_slack)
            avg_slack == (co.place_slack + co.cts_slack) \div 2
            tier == IF Abs(min_slack) > Tenths(10) THEN <<95, 500>>
                    ELSE IF Abs(min_slack) > Tenths(5) THEN <<92, 1000>>
                    ELSE IF Abs(min_slack) > Tenths(2) THEN <<88, 2000>>
                    ELSE <<85, 2500>>
        IN  co.predictions[2] =
                (min_slack * tier[1]) \div 100 + (avg_slack * (100 - tier[1])) \div 100
                    + Min2(Abs(co.place_slack - co.cts_slack) \div 10, tier[2])

\* A row whose physics-based estimate in the ensemble is the correction of
\* the raw prediction by improve_route_predictions and is another value than
\* the tiered blend, which calculate_realistic_route_slack returns.
C22_Witness ==
    /\ co.stage = "ensembled"
    /\ co.predictions[2] =
          improve_route_predictions(co.pred, co.place_slack, co.cts_slack)
    /\ co.predictions[2] # calculate_realistic_route_slack(co.place_slack, co.cts_slack)

\* C23: calculate_synthetic_route_slack is deterministic in its two inputs:
\* a later call with the same two slacks returns the value of the earlier
\* call, in every process run of the service.
C23_SyntheticDeterministic ==
    co.stage = "synthetic_again" => co.again = co.result

\* Within one process run a later call returns the value of the earlier one.
C23_SameProcessSameValue ==
    (co.stage = "synthetic_again" /\ ~co.restarted) => co.again = co.result

\* Two calls with the same two slacks, in two process runs, that returned
\* different values.
C23_Witness ==
    /\ co.stage = "synthetic_again"
    /\ co.restarted
    /\ co.again # co.result

\* C24: for every base column col the table create_dynamic_features returns
\* holds both col_squared and col_log, whatever the values of the column,
\* col_log being ln(col + 1e-8) on the rows where col > 0 and 0 on the others.
C24_SquaredAndLogAlways ==
    fe.stage = "engineered" =>
        \A i \in DOMAIN fe.base_columns :
            LET col == fe.base_columns[i]
            IN  /\ HasColumn(fe.engineered, col \o <<"squared">>)
                /\ HasColumn(fe.engineered, col \o <<"log">>)
                /\ Get(fe.engineered, col \o <<"log">>)[1] = "log"

\* An engineered table with the square of a base column that has no positive
\* row and without the logarithm of that column.
C24_Witness ==
    /\ fe.stage = "engineered"
    /\ \E i \in DOMAIN fe.df :
          /\ fe.df[i].sign = "neg"
          /\ fe.df[i].name \in Range(fe.base_columns)
          /\ HasColumn(fe.engineered, fe.df[i].name \o <<"squared">>)
          /\ ~HasColumn(fe.engineered, fe.df[i].name \o <<"log">>)

\* C25: create_dynamic_features adds combined_delays, the row-wise sum of
\* the base columns whose lower-cased name contains 'delay', exactly when
\* there are at least two such columns, and combined_counts likewise for
\* 'count'; two delay columns and one count column give combined_delays and
\* no combined_counts.
C25_CombinedSums ==
    fe.stage = "engineered" =>
        \A kind \in { <<"delay", <<"combined", "delays">> >>,
                      <<"count", <<"combined", "counts">> >> } :
            LET related == SelectSeq(fe.base_columns, LAMBDA c : Mentions(c, kind[1]))
                raw(c) == <<"raw", c, (CHOOSE col \in Range(fe.df) : col.name = c).sign>>
            IN  /\ HasColumn(fe.engineered, kind[2]) <=> Len(related) >= 2
                /\ Len(related) >= 2 =>
                      Get(fe.engineered, kind[2])
                          = <<"sum", [i \in DOMAIN related |-> raw(related[i])]>>

\* Base columns with two delay columns and a single count column, engineered
\* into a table with combined_delays and without combined_counts.
C25_Witness ==
    /\ fe.stage = "engineered"
    /\ Len(SelectSeq(fe.base_columns, LAMBDA c : Mentions(c, "delay"))) = 2
    /\ Len(SelectSeq(fe.base_columns, LAMBDA c : Mentions(c, "count"))) = 1
    /\ HasColumn(fe.engineered, <<"combined", "delays">>)
    /\ ~HasColumn(fe.engineered, <<"combined", "counts">>)

(***************************************************************************)
(* The Schema Inspector (SpecInspect).  A table is given as train_model and*)
(* predict hand it over: fetched, with lower-case column names, and cleaned*)
(* by clean_data_for_training, so that every column but the endpoint is    *)
(* either of a numeric dtype and without NaN or an object column none of   *)
(* whose entries is written as a number.  The endpoint column is an object *)
(* column, and endpoint_numeric of its entries are written as a number.    *)
(***************************************************************************)
\* Longest table, in columns other than the endpoint columns.
MaxInspectCols == 3

\* Rows of a table.
InspectRows == 5

MeasureColumns == {"slack", "setup_result", "delay", "fanout"}

\* The lists without repetition of at most n of the names.
RECURSIVE ColumnLists(_, _)
ColumnLists(names, n) ==
    IF n = 0 THEN {<<>>}
    ELSE {<<>>} \cup UNION { { <<c>> \o rest : rest \in ColumnLists(names \ {c}, n - 1) } : c \in names }

\* The list with the name put in before position k.
Insert(s, k, name) == SubSeq(s, 1, k - 1) \o <<name>> \o SubSeq(s, k, Len(s))

InspectTables ==
    UNION { UNION { { [cols |-> Insert(measures, k, "endpoint") \o normalized,
                       numeric |-> numeric, nrows |-> InspectRows,
                       endpoint_numeric |-> endpoint_numeric] :
                        numeric \in SUBSET Range(measures),
                        endpoint_numeric \in {0, InspectRows - 1, InspectRows},
                        normalized \in {<<>>, <<"normalized_endpoint">>} }
                    : k \in 1..(Len(measures) + 1) }
            : measures \in ColumnLists(MeasureColumns, MaxInspectCols) }

InspectInputs ==
    [stage : {"input"}, df : InspectTables, target_col : {"None"},
     feature_cols : {<<>>}, df_after : {0}]

\* train_model, lines 4253 and 4351, and predict, line 2936: the feature
\* columns of a table are detected, the target of another table excluded.
\* The function reads the table and assigns to none of its columns.  Its
\* callers have found a numeric column in the table before (lines 4197, 4245
\* and 2739).
DetectFeatures(target_col) ==
    /\ sc.stage = "input"
    /\ sc.df.numeric # {}
    /\ sc' = [sc EXCEPT !.stage = "features",
                        !.target_col = target_col,
                        !.feature_cols = detect_feature_columns(sc.df, target_col),
                        !.df_after = sc.df]
    /\ UNCHANGED <<svars, fe, co, al>>

\* train_model, lines 4245-4247 and 4344-4346, and predict, lines 2739-2745:
\* the target of a table is detected and the request fails when there is none.
DetectTarget ==
    /\ sc.stage = "input"
    /\ LET target_col == get_target_column(sc.df)
       IN  sc' = [sc EXCEPT !.stage = IF target_col = "None" THEN "raised" ELSE "target",
                            !.target_col = target_col,
                            !.df_after = sc.df]
    /\ UNCHANGED <<svars, fe, co, al>>

InitInspect == ServiceInit /\ fe = 0 /\ co = 0 /\ al = 0 /\ sc \in InspectInputs

NextInspect ==
    \/ \E target_col \in MeasureColumns \cup {"None"} : DetectFeatures(target_col)
    \/ DetectTarget

SpecInspect == InitInspect /\ [][NextInspect]_vars

\* C26: detect_feature_columns qualifies a column other than the identifier
\* and the target exactly when its declared type is numeric or numeric
\* coercion succeeds for at least 80% of its non-missing entries, and it
\* leaves the source table unchanged.
C26_QualifiedColumns ==
    sc.stage = "features" =>
        /\ sc.feature_cols =
              SelectSeq(sc.df.cols,
                        LAMBDA c : /\ c # "endpoint"
                                   /\ c # sc.target_col
                                   /\ \/ c \in sc.df.numeric
                                      \/ NumericCount(sc.df, c) * 10 >= sc.df.nrows * 8)
        /\ sc.df_after = sc.df

\* A table whose endpoint column, every entry of it written as a number, is
\* among the detected feature columns.
C26_Witness ==
    /\ sc.stage = "features"
    /\ sc.df.endpoint_numeric = sc.df.nrows
    /\ "endpoint" \in Range(sc.feature_cols)

\* C27: get_target_column returns the first column, in column order, that is
\* numeric and whose name contains one of the keywords slack, target, output,
\* result, prediction; without such a column it returns the last numeric
\* column; and for a table without a numeric column the detection fails and
\* the request of the caller fails.
C27_TargetColumn ==
    sc.stage \in {"target", "raised"} =>
        LET cols == sc.df.cols
            numeric == { i \in DOMAIN cols : cols[i] \in sc.df.numeric }
            keyword == { i \in numeric : cols[i] \in {"slack", "setup_result"} }
        IN  IF keyword # {}
            THEN /\ sc.stage = "target"
                 /\ sc.target_col = cols[CHOOSE i \in keyword : \A j \in keyword : i <= j]
            ELSE IF numeric # {}
            THEN /\ sc.stage = "target"
                 /\ sc.target_col = cols[CHOOSE i \in numeric : \A j \in numeric : i >= j]
            ELSE sc.stage = "raised"

\* A table with two numeric keyword columns after a numeric column without a
\* keyword, whose target is the earlier of the two.
C27_Witness ==
    /\ sc.stage = "target"
    /\ \E i, j, k \in DOMAIN sc.df.cols :
          /\ i < j /\ j < k
          /\ {sc.df.cols[i], sc.df.cols[j], sc.df.cols[k]} \subseteq sc.df.numeric
          /\ sc.df.cols[i] \notin {"slack", "setup_result"}
          /\ {sc.df.cols[j], sc.df.cols[k]} = {"slack", "setup_result"}
          /\ sc.target_col = sc.df.cols[j]

\* C28: predict returns a success result only if some earlier training run
\* completed: as long as no training run has completed (none was started, or
\* every run failed), predict fails with the not-trained error.
C28_SuccessNeedsCompletedRun ==
    (predict_result.status # "none" /\ last_trained_tables = 0) =>
        (predict_result.status = "400" /\ predict_result.detail = "models_not_trained")

\* A success result of predict in a state where the only training run failed
\* after it had assigned model_place_to_cts.
C28_Witness ==
    /\ predict_result.status = "success"
    /\ last_trained_tables = 0
    /\ runs = 1
    /\ training_status.stage = "error"
    /\ model_place_to_cts.run = 1

\* C29: every route value predict emits for a row lies within
\* [min(A,B) - 0.1, max(A,B) + 0.05] of the place and CTS slacks A and B of
\* the row, whatever the raw prediction of the route model and the training
\* statistics are: the corrected value, bounded or not, the substitute of the
\* outlier rejection, and the estimate made without a route model.
C29_RouteWithinInputBand ==
    LET low  == (IF co.place_slack <= co.cts_slack THEN co.place_slack ELSE co.cts_slack) - 10000
        high == (IF co.place_slack >= co.cts_slack THEN co.place_slack ELSE co.cts_slack) + 5000
    IN  /\ co.stage = "corrected" =>
              /\ low <= co.passed /\ co.passed <= high
              /\ low <= co.result /\ co.result <= high
        /\ co.stage = "estimated" => (low <= co.result /\ co.result <= high)

\* A row whose raw prediction lay above the band and was not replaced as
\* garbage, and whose emitted value is the corrected one, unchanged by the
\* training bounds.
C29_Witness ==
    /\ co.stage = "corrected"
    /\ co.pred = CleanGarbage(co.pred, co.place_slack, co.cts_slack)
    /\ co.pred > Max2(co.place_slack, co.cts_slack) + 5000
    /\ ~co.outlier
    /\ co.result = co.passed
    /\ co.result <= Max2(co.place_slack, co.cts_slack) + 5000

\* The status between two steps of the service: is_training only during a
\* run, progress 100 only with stage 'completed', stage 'error' only with
\* progress 0 and an error, and during a run no error and no metrics of an
\* earlier run.
StatusConsistent ==
    /\ training_status.is_training => pc # "idle"
    /\ pc = "idle" => ~training_status.is_training
    /\ training_status.progress = 100 => training_status.stage = "completed"
    /\ training_status.stage = "error" =>
          (training_status.progress = 0 /\ training_status.error # "None")
    /\ pc # "idle" =>
          (training_status.error = "None" /\ training_status.metrics \in {0, tr.run})

\* C30: training_status stays consistent over any sequence of training runs:
\* is_training is true only while a train_model call is in progress and false
\* after every call has returned or failed; progress 100 occurs only with
\* stage 'completed'; a failed run ends with stage 'error', progress 0 and an
\* error; and a run that starts clears the error and the metrics of the run
\* before.
C30_StatusConsistent ==
    /\ []StatusConsistent
    /\ [][ /\ (pc = "except" /\ pc' = "idle") =>
                (/\ training_status'.stage = "error"
                 /\ training_status'.progress = 0
                 /\ training_status'.error # "None"
                 /\ ~training_status'.is_training)
           /\ (pc = "finish" /\ pc' = "idle") =>
                (/\ training_status'.stage = "completed"
                 /\ training_status'.progress = 100
                 /\ ~training_status'.is_training)
           /\ runs' # runs =>
                (/\ training_status'.is_training
                 /\ training_status'.error = "None"
                 /\ training_status'.metrics = 0) ]_vars

\* A second run in progress after a first run that failed once it had trained
\* the place model: the status shows no error.
C30_Witness ==
    /\ runs = 2
    /\ pc = "load"
    /\ last_trained_tables = 0
    /\ model_place_to_cts.run = 1
    /\ training_status.is_training
    /\ training_status.error = "None"

====
